---- MODULE Spec2Model ----
(***************************************************************************)
(* A model of algo-relay: the event repository (SaveNostrEvent and the     *)
(* relational schema), the retention janitor (purgeData), the viral note   *)
(* cache, and the feed cache / request coalescer (GetUserFeed).            *)
(*                                                                         *)
(* Time is counted in minutes.  Scores are fixed-point, in millionths.     *)
(***************************************************************************)
EXTENDS Integers, Sequences, FiniteSets, Bags, TLC

VARIABLES
    clock,          \* wall clock, minutes
    notes,          \* table notes      (bag of rows)
    comments,       \* table comments   (bag of rows)
    reactions,      \* table reactions  (bag of rows)
    zaps,           \* table zaps       (bag of rows)
    lastSave,       \* the last SaveNostrEvent call: event id, returned error, id already stored
    months,         \* purgeData's argument (PURGE_MONTHS)
    purgePc,        \* position of the janitor inside one purge pass
    purgeCutoff,    \* history: the cutoff (now - horizon) at the start of the current pass
    passQuiet,      \* history: a pass has started and no event was ingested since
    build,          \* which build of the feed composer runs
    weights,        \* the weights read from the environment at startup
    viralNoteCache, \* [notes, Timestamp], guarded by viralNoteCacheMutex
    refreshDue,     \* when refreshViralNotes runs next
    userFeedCache,  \* sync.Map: cache key -> CachedFeeds
    pendingRequests,\* cache key -> completion channel, guarded by pendingRequestsMutex
    nextChan,       \* identity of the next channel made
    closed,         \* the channels that have been closed
    procs,          \* the goroutines that serve feed requests
    req,            \* per goroutine: position in GetUserFeed and its locals
    started,        \* history: number of GetUserFeed calls so far
    composerCalls,  \* history: cache key -> number of GetUserFeedByAuthors calls
    composerErrs,   \* history: number of GetUserFeedByAuthors calls that failed
    sequential,     \* history: no call started while another was running
    allOverlap,     \* history: every call started before any call returned
    chain,          \* history: cache key -> [k, first] position in a run of calls within 5 minutes
    failedGen,      \* history: the channels closed by a call whose generation failed
    main,           \* which build of the relay's main package runs
    notice,         \* the relay's answer to the last REQ or EVENT message of a subscriber
    userSettings,   \* table user_settings: pubkey -> stored settings
    httpReply,      \* the last response of the settings endpoint: status and body
    calc            \* the last evaluation of a scoring function: arguments and result

dbVars == <<notes, comments, reactions, zaps>>
repoVars == <<lastSave>>
janitorVars == <<months, purgePc, purgeCutoff, passQuiet>>
viralVars == <<viralNoteCache, refreshDue>>
cacheVars == <<userFeedCache, pendingRequests, nextChan, closed>>
histVars == <<started, composerCalls, composerErrs, sequential, allOverlap, chain, failedGen>>
relayVars == <<main, notice, userSettings, httpReply, calc>>
feedVars == <<build, weights, viralVars, cacheVars, procs, req, histVars, relayVars>>
vars == <<clock, dbVars, repoVars, janitorVars, feedVars>>

----------------------------------------------------------------------------
(* Units of time *)
Minute == 1
Hour == 60
Day == 1440
Month == 43200

(* Bounds of the model *)
MaxMonths == 3          \* months of wall-clock time explored by the janitor model
PurgeMonthsChoices == {1, 2}

----------------------------------------------------------------------------
(* nostr.Event as delivered by the upstream relays *)
Ev(id, pk, kind, ts, tags) ==
    [ID |-> id, PubKey |-> pk, Kind |-> kind, CreatedAt |-> ts, Tags |-> tags]

NoErr == ""

(* hrpToMillisat: the human readable part of a lightning invoice, in millisats *)
hrpToMillisat(bolt11) ==
    CASE bolt11 = "lnbc10u"   -> [ok |-> TRUE,  millisat |-> 1000000]
      [] bolt11 = "lnbc1500n" -> [ok |-> TRUE,  millisat |-> 150000]
      [] bolt11 = "lnbc15p"   -> [ok |-> TRUE,  millisat |-> 1]
      [] OTHER                -> [ok |-> FALSE, millisat |-> 0]

decodeBolt11Invoice(bolt11) ==
    LET m == hrpToMillisat(bolt11)
    IN  IF ~m.ok THEN [ok |-> FALSE, val |-> 0, err |-> "invalid bolt11"]
        ELSE [ok |-> TRUE, val |-> m.millisat \div 1000, err |-> NoErr]

(* json.Unmarshal of the description tag into struct{PubKey} *)
UnmarshalDescription(s) ==
    CASE s = "{pubkey:V}" -> [ok |-> TRUE, PubKey |-> "V"]
      [] s = "{pubkey:B}" -> [ok |-> TRUE, PubKey |-> "B"]
      [] s = "{}"         -> [ok |-> TRUE, PubKey |-> ""]
      [] OTHER            -> [ok |-> FALSE, PubKey |-> ""]

(* index of the first tag satisfying P, 0 when there is none *)
FirstTag(tags, P(_)) ==
    LET idx == {i \in 1..Len(tags) : P(tags[i])}
    IN  IF idx = {} THEN 0 ELSE CHOOSE i \in idx : \A j \in idx : i <= j

IsTag(tag, name) == Len(tag) > 0 /\ tag[1] = name

(* a Go index expression tag[1] on a one-element tag panics *)
Panic == "panic: index out of range"

getRootNoteID(event) ==
    LET Hit(tag) == IsTag(tag, "e") /\ Len(tag) >= 3 /\ (tag[3] = "root" \/ tag[3] = "")
        i == FirstTag(event.Tags, Hit)
    IN  IF i = 0 THEN "" ELSE event.Tags[i][2]

getTaggedPostID(event) ==
    LET Hit(tag) == IsTag(tag, "e")
        i == FirstTag(event.Tags, Hit)
    IN  IF i = 0 THEN [ok |-> FALSE, val |-> "", err |-> "no post ID found in event tags"]
        ELSE IF Len(event.Tags[i]) < 2 THEN [ok |-> FALSE, val |-> "", err |-> Panic]
        ELSE [ok |-> TRUE, val |-> event.Tags[i][2], err |-> NoErr]

getZapAmount(event) ==
    LET Hit(tag) == IsTag(tag, "bolt11")
        i == FirstTag(event.Tags, Hit)
    IN  IF i = 0 THEN [ok |-> FALSE, val |-> 0, err |-> "no zap amount found in event tags"]
        ELSE IF Len(event.Tags[i]) < 2 THEN [ok |-> FALSE, val |-> 0, err |-> Panic]
        ELSE decodeBolt11Invoice(event.Tags[i][2])

getZapperID(event) ==
    LET Hit(tag) == IsTag(tag, "description")
        i == FirstTag(event.Tags, Hit)
    IN  IF i = 0 THEN [ok |-> FALSE, val |-> "", err |-> "no zapper pubkey found in description tag"]
        ELSE IF Len(event.Tags[i]) < 2 THEN [ok |-> FALSE, val |-> "", err |-> Panic]
        ELSE LET d == UnmarshalDescription(event.Tags[i][2])
             IN  IF d.ok THEN [ok |-> TRUE, val |-> d.PubKey, err |-> NoErr]
                 ELSE [ok |-> FALSE, val |-> "", err |-> "error parsing description tag"]

----------------------------------------------------------------------------
(* The relational schema.  A database is a record of four tables, each a    *)
(* bag of rows.                                                             *)
EmptyDB == [notes |-> EmptyBag, comments |-> EmptyBag,
            reactions |-> EmptyBag, zaps |-> EmptyBag]

Rows(table) == BagToSet(table)

HasId(table, id) == \E row \in Rows(table) : row.id = id

(* mutant: the column declared without REFERENCES notes(id) *)
ForeignKeyUnchecked(db, noteId) == TRUE

(* note_id TEXT REFERENCES notes(id) *)
ForeignKeyHolds(db, noteId) == HasId(db.notes, noteId)

FKViolation == "pq: insert or update violates foreign key constraint"
FKDeleteViolation == "pq: update or delete violates foreign key constraint"

(* mutant: the insert without its ON CONFLICT clause and primary key *)
InsertAlways(table, row) == table (+) SetToBag({row})

(* INSERT ... ON CONFLICT (id) DO NOTHING *)
InsertOnConflictDoNothing(table, row) ==
    IF HasId(table, row.id) THEN table ELSE table (+) SetToBag({row})

Res(db, err) == [db |-> db, err |-> err]

savePost(db, event) ==
    Res([db EXCEPT !.notes = InsertOnConflictDoNothing(@,
            [id |-> event.ID, author_id |-> event.PubKey, raw_json |-> event,
             created_at |-> event.CreatedAt])], NoErr)

(* insert into a table whose note_id column references notes(id) *)
InsertChild(db, tname, row) ==
    IF ~HasId(db[tname], row.id) /\ ~ForeignKeyHolds(db, row.note_id)
    THEN Res(db, FKViolation)
    ELSE Res([db EXCEPT ![tname] = InsertOnConflictDoNothing(@, row)], NoErr)

saveComment(db, event, rootID) ==
    InsertChild(db, "comments",
        [id |-> event.ID, note_id |-> rootID, commenter_id |-> event.PubKey,
         created_at |-> event.CreatedAt])

savePostOrComment(db, event) ==
    LET rootID == getRootNoteID(event)
    IN  IF rootID = "" THEN savePost(db, event) ELSE saveComment(db, event, rootID)

saveReaction(db, event) ==
    LET postID == getTaggedPostID(event)
    IN  IF ~postID.ok THEN Res(db, postID.err)
        ELSE InsertChild(db, "reactions",
                [id |-> event.ID, note_id |-> postID.val, reactor_id |-> event.PubKey,
                 created_at |-> event.CreatedAt])

saveZap(db, event) ==
    LET postID == getTaggedPostID(event)
        amount == getZapAmount(event)
        zapperID == getZapperID(event)
    IN  IF ~postID.ok THEN Res(db, postID.err)
        ELSE IF ~amount.ok THEN Res(db, amount.err)
        ELSE IF ~zapperID.ok THEN Res(db, zapperID.err)
        ELSE InsertChild(db, "zaps",
                [id |-> event.ID, note_id |-> postID.val, zapper_id |-> zapperID.val,
                 amount |-> amount.val, created_at |-> event.CreatedAt])

SaveNostrEventResult(db, event) ==
    CASE event.Kind = 1    -> savePostOrComment(db, event)
      [] event.Kind = 7    -> saveReaction(db, event)
      [] event.Kind = 9735 -> saveZap(db, event)
      [] OTHER             -> Res(db, "unhandled event kind")

(* number of rows stored under an event id, over the four tables *)
RowCount(db, id) ==
    LET Count(table) ==
            LET hit == {row \in Rows(table) : row.id = id}
            IN  IF hit = {} THEN 0 ELSE BagCardinality([row \in hit |-> table[row]])
    IN  Count(db.notes) + Count(db.comments) + Count(db.reactions) + Count(db.zaps)

NoSave == [id |-> "", err |-> NoErr, existed |-> FALSE]

CurrentDB == [notes |-> notes, comments |-> comments,
              reactions |-> reactions, zaps |-> zaps]

SetDB(db) ==
    /\ notes' = db.notes
    /\ comments' = db.comments
    /\ reactions' = db.reactions
    /\ zaps' = db.zaps

----------------------------------------------------------------------------
(* Upstream events of the repository model *)
RepoEvents ==
    { Ev("n1", "A", 1, 0, <<>>),
      Ev("n2", "V", 1, 2 * Month, <<>>),
      Ev("r1", "V", 7, 0, << <<"e", "n1">> >>),
      Ev("r2", "B", 7, 2 * Month, << <<"e", "n1">> >>),
      Ev("c1", "V", 1, 0, << <<"p", "A">>, <<"e", "n1", "root">> >>),
      Ev("z1", "B", 9735, 0,
         << <<"e", "n2">>, <<"bolt11", "lnbc10u">>, <<"description", "{pubkey:V}">> >>),
      Ev("f1", "V", 3, 0, <<>>),
      Ev("r3", "V", 7, 0, << <<"p", "A">> >>) }

EventIds(events) == {e.ID : e \in events}

(* subscribeAll: every event of the upstream stream is handed to            *)
(* SaveNostrEvent; an error is skipped (continue).  A panic inside          *)
(* SaveNostrEvent is not recovered: the loop handles no event after it.     *)
Ingest(event) ==
    /\ lastSave.err # Panic
    /\ LET r == SaveNostrEventResult(CurrentDB, event)
       IN  /\ SetDB(r.db)
           /\ lastSave' = [id |-> event.ID, err |-> r.err,
                           existed |-> RowCount(CurrentDB, event.ID) > 0]
    /\ passQuiet' = FALSE
    /\ UNCHANGED <<clock, months, purgePc, purgeCutoff, feedVars>>

subscribeAll == \E event \in RepoEvents : Ingest(event)

----------------------------------------------------------------------------
(* The retention janitor *)
KeepRows(table, Keep(_)) ==
    [row \in {r \in DOMAIN table : Keep(r)} |-> table[row]]

(* DELETE FROM <table> WHERE created_at < NOW() - INTERVAL '<months> months' *)
DeleteOlderThan(table, cutoff) ==
    LET Keep(r) == r.created_at >= cutoff IN KeepRows(table, Keep)

(* the rows of the child tables that reference notes(id) *)
ChildRows(db) == Rows(db.comments) \cup Rows(db.reactions) \cup Rows(db.zaps)

Referenced(db, noteId) == \E row \in ChildRows(db) : row.note_id = noteId

PurgeCommentsOlderThan(db, cutoff) ==
    Res([db EXCEPT !.comments = DeleteOlderThan(@, cutoff)], NoErr)

PurgeNotesOlderThan(db, cutoff) ==
    IF \E row \in Rows(db.notes) : row.created_at < cutoff /\ Referenced(db, row.id)
    THEN Res(db, FKDeleteViolation)
    ELSE Res([db EXCEPT !.notes = DeleteOlderThan(@, cutoff)], NoErr)

PurgeReactionsOlderThan(db, cutoff) ==
    Res([db EXCEPT !.reactions = DeleteOlderThan(@, cutoff)], NoErr)

PurgeZapsOlderThan(db, cutoff) ==
    Res([db EXCEPT !.zaps = DeleteOlderThan(@, cutoff)], NoErr)

Cutoff == clock - months * Month

(* case <-ticker.C: a purge pass starts *)
PurgeTick ==
    /\ purgePc = "idle"
    /\ purgePc' = "comments"
    /\ purgeCutoff' = Cutoff
    /\ passQuiet' = TRUE
    /\ UNCHANGED <<clock, dbVars, repoVars, months, feedVars>>

PurgeComments ==
    /\ purgePc = "comments"
    /\ SetDB(PurgeCommentsOlderThan(CurrentDB, Cutoff).db)
    /\ purgePc' = "notes"
    /\ UNCHANGED <<clock, repoVars, months, purgeCutoff, passQuiet, feedVars>>

(* mutant: a failed purge of the notes ends the pass *)
PurgeNotesAborts ==
    /\ purgePc = "notes"
    /\ SetDB(PurgeNotesOlderThan(CurrentDB, Cutoff).db)
    /\ purgePc' = IF PurgeNotesOlderThan(CurrentDB, Cutoff).err # NoErr
                  THEN "idle" ELSE "reactions"
    /\ UNCHANGED <<clock, repoVars, months, purgeCutoff, passQuiet, feedVars>>

PurgeNotes ==
    /\ purgePc = "notes"
    /\ SetDB(PurgeNotesOlderThan(CurrentDB, Cutoff).db)
    /\ purgePc' = "reactions"
    /\ UNCHANGED <<clock, repoVars, months, purgeCutoff, passQuiet, feedVars>>

PurgeReactions ==
    /\ purgePc = "reactions"
    /\ SetDB(PurgeReactionsOlderThan(CurrentDB, Cutoff).db)
    /\ purgePc' = "zaps"
    /\ UNCHANGED <<clock, repoVars, months, purgeCutoff, passQuiet, feedVars>>

PurgeZaps ==
    /\ purgePc = "zaps"
    /\ SetDB(PurgeZapsOlderThan(CurrentDB, Cutoff).db)
    /\ purgePc' = "idle"
    /\ UNCHANGED <<clock, repoVars, months, purgeCutoff, passQuiet, feedVars>>

purgeData == PurgeTick \/ PurgeComments \/ PurgeNotes \/ PurgeReactions \/ PurgeZaps

(* a month of wall-clock time passes *)
TickMonth ==
    /\ clock + Month <= MaxMonths * Month
    /\ clock' = clock + Month
    /\ UNCHANGED <<dbVars, repoVars, janitorVars, feedVars>>

----------------------------------------------------------------------------
(* Weights, in thousandths (1000 is the 1.0 that getWeightFloat64 returns   *)
(* for an unset or unparseable variable).                                   *)
DefaultWeights ==
    [weightInteractionsWithAuthor |-> 1000, weightCommentsGlobal |-> 1000,
     weightReactionsGlobal |-> 1000, weightZapsGlobal |-> 1000,
     weightRecency |-> 1000, viralThreshold |-> 1000,
     viralNoteDampening |-> 1000, decayRate |-> 1000]

(* 100000 * exp(-q/2) rounded, for q = 10 .. 22 *)
ExpTable == <<674, 409, 248, 150, 91, 55, 34, 20, 12, 7, 5, 3, 2>>

(* calculateRecencyFactor, in thousandths: exp(-decayRate * hours) * 100    *)
(* clamped to [0.001, 1.0]; the exponential is sampled every half unit.     *)
calculateRecencyFactor(createdAt, now, w) ==
    LET minutes == now - createdAt
        x == (w.decayRate * minutes) \div Hour          \* decayRate * hours, thousandths
        q == x \div 500
    IN  IF x <= 4605 THEN 1000
        ELSE IF x >= 11513 \/ q > 22 THEN 1
        ELSE IF q < 10 THEN 1000
        ELSE ExpTable[q - 9]

(* calculateAuthorNoteScore; scores are in millionths *)
calculateAuthorNoteScore(meta, interactionCount, now, w) ==
    LET recencyFactor == calculateRecencyFactor(meta.CreatedAt, now, w)
    IN  1000 * meta.GlobalCommentsCount * w.weightCommentsGlobal
        + 1000 * meta.GlobalReactionsCount * w.weightReactionsGlobal
        + 1000 * meta.GlobalZapsCount * w.weightZapsGlobal
        + recencyFactor * w.weightRecency
        + 1000 * interactionCount * w.weightInteractionsWithAuthor

(* the score of a viral note, GetViralPosts, in millionths: the weighted sum *)
(* is cut to thousandths before it is multiplied by the dampening            *)
ViralScore(event, commentCount, reactionCount, zapCount, now, w) ==
    LET recencyFactor == calculateRecencyFactor(event.CreatedAt, now, w)
    IN  ( ( 1000 * commentCount * w.weightCommentsGlobal
          + 1000 * reactionCount * w.weightReactionsGlobal
          + 1000 * zapCount * w.weightZapsGlobal
          + recencyFactor * w.weightRecency ) \div 1000 ) * w.viralNoteDampening

FeedNote(event, score) == [Event |-> event, Score |-> score]

RECURSIVE SumOver(_, _)
SumOver(f, S) ==
    IF S = {} THEN 0
    ELSE LET x == CHOOSE y \in S : TRUE IN f[x] + SumOver(f, S \ {x})

(* the child rows joined to one note: LEFT JOIN t ON p.id = t.note_id *)
Joined(table, noteId) == {row \in Rows(table) : row.note_id = noteId}

Max(a, b) == IF a >= b THEN a ELSE b

(* fetchTopInteractedAuthors: the row count over notes LEFT JOIN zaps LEFT JOIN   *)
(* reactions LEFT JOIN comments, of the joined rows in which the zapper,     *)
(* the reactor or the commenter is the user, grouped by author.  The result  *)
(* is the function author -> interaction_count of the authors returned.      *)
JoinedRowCount(db, note, userID) ==
    LET Z == Joined(db.zaps, note.id)
        R == Joined(db.reactions, note.id)
        C == Joined(db.comments, note.id)
        zu == Cardinality({z \in Z : z.zapper_id = userID})
        ru == Cardinality({r \in R : r.reactor_id = userID})
        cu == Cardinality({c \in C : c.commenter_id = userID})
        nz == Max(1, Cardinality(Z))
        nr == Max(1, Cardinality(R))
        nc == Max(1, Cardinality(C))
    IN  \* rows of Z' x R' x C' less those where none of the three is the user's
        nz * nr * nc - (nz - zu) * (nr - ru) * (nc - cu)

fetchTopInteractedAuthors(db, userID) ==
    LET authors == {n.author_id : n \in Rows(db.notes)}
        count == [a \in authors |->
                    LET mine == {n \in Rows(db.notes) : n.author_id = a}
                        c == [n \in mine |-> JoinedRowCount(db, n, userID)]
                    IN  SumOver(c, mine)]
    IN  [a \in {b \in authors : count[b] > 0} |-> count[a]]

getInteractionCountForAuthor(authorID, interactions) ==
    IF authorID \in DOMAIN interactions THEN interactions[authorID] ELSE 0

MinInteractions == 5

(* mutant: the notes of every author returned by fetchTopInteractedAuthors *)
fetchPostsOfAllAuthors(db, authorInteractions, now) ==
    LET oneWeekAgo == now - 7 * Day
        Recent(table, id) == {row \in Joined(table, id) : row.created_at >= oneWeekAgo}
    IN  { [Event |-> p.raw_json,
           GlobalCommentsCount |-> Cardinality(Recent(db.comments, p.id)),
           GlobalReactionsCount |-> Cardinality(Recent(db.reactions, p.id)),
           GlobalZapsCount |-> Cardinality(Recent(db.zaps, p.id)),
           InteractionCount |-> authorInteractions[p.author_id],
           CreatedAt |-> p.raw_json.CreatedAt]
          : p \in {n \in Rows(db.notes) :
                     n.author_id \in DOMAIN authorInteractions
                        /\ n.created_at >= oneWeekAgo} }

(* fetchPostsFromAuthors: the notes of the authors with at least 5           *)
(* interactions, created within the last week, with their comment, reaction  *)
(* and zap counts of the last week.                                          *)
fetchPostsFromAuthors(db, authorInteractions, now) ==
    LET authorIDs == {a \in DOMAIN authorInteractions :
                        authorInteractions[a] >= MinInteractions}
        oneWeekAgo == now - 7 * Day
        Recent(table, id) == {row \in Joined(table, id) : row.created_at >= oneWeekAgo}
    IN  IF authorIDs = {} THEN {}
        ELSE { [Event |-> p.raw_json,
                GlobalCommentsCount |-> Cardinality(Recent(db.comments, p.id)),
                GlobalReactionsCount |-> Cardinality(Recent(db.reactions, p.id)),
                GlobalZapsCount |-> Cardinality(Recent(db.zaps, p.id)),
                InteractionCount |-> authorInteractions[p.author_id],
                CreatedAt |-> p.raw_json.CreatedAt]
               : p \in {n \in Rows(db.notes) :
                          n.author_id \in authorIDs /\ n.created_at >= oneWeekAgo} }

(* the results of sort.Slice(feed, Score descending) on a list holding the   *)
(* given bag of notes: sort.Slice is not stable, so every arrangement with   *)
(* non-increasing scores is a possible result.                               *)
RECURSIVE SortedByScore(_)
SortedByScore(bag) ==
    IF bag = EmptyBag THEN {<<>>}
    ELSE LET top == {x \in BagToSet(bag) : \A y \in BagToSet(bag) : x.Score >= y.Score}
         IN  UNION { {<<x>> \o rest : rest \in SortedByScore(bag (-) SetToBag({x}))}
                     : x \in top }

(* GetUserFeedByAuthors: the possible author feeds, sorted by score *)
GetUserFeedByAuthors(db, userID, now, w) ==
    LET authorInteractions == fetchTopInteractedAuthors(db, userID)
        posts == fetchPostsFromAuthors(db, authorInteractions, now)
        scored == { FeedNote(post.Event,
                        calculateAuthorNoteScore(post,
                            getInteractionCountForAuthor(post.Event.PubKey, authorInteractions),
                            now, w))
                    : post \in posts }
    IN  SortedByScore(SetToBag(scored))

ViralLimit == 100

(* the results of ORDER BY <engagement> DESC LIMIT n over a set of rows      *)
RECURSIVE OrderedByEngagement(_)
OrderedByEngagement(rows) ==
    IF rows = {} THEN {<<>>}
    ELSE LET top == {x \in rows : \A y \in rows : x.engagement >= y.engagement}
         IN  UNION { {<<x>> \o rest : rest \in OrderedByEngagement(rows \ {x})}
                     : x \in top }

Take(seq, n) == IF Len(seq) <= n THEN seq ELSE SubSeq(seq, 1, n)

(* GetViralPosts: COUNT(c.id), COUNT(r.id), COUNT(z.id) are taken over the   *)
(* join of the three child tables, so each counts the joined rows.           *)
GetViralPosts(db, now, limit, w) ==
    LET threeDaysAgo == now - 3 * Day
        Counted(p) ==
            LET nc == Cardinality(Joined(db.comments, p.id))
                nr == Cardinality(Joined(db.reactions, p.id))
                nz == Cardinality(Joined(db.zaps, p.id))
                joinRows == Max(1, nc) * Max(1, nr) * Max(1, nz)
                cc == IF nc = 0 THEN 0 ELSE joinRows
                rc == IF nr = 0 THEN 0 ELSE joinRows
                zc == IF nz = 0 THEN 0 ELSE joinRows
            IN  [event |-> p.raw_json, comment_count |-> cc, reaction_count |-> rc,
                 zap_count |-> zc, engagement |-> cc + rc + zc]
        rows == { Counted(p) : p \in {n \in Rows(db.notes) : n.created_at >= threeDaysAgo} }
        viral == {row \in rows : 1000 * row.engagement >= w.viralThreshold}
        Note(row) == FeedNote(row.event,
                        ViralScore(row.event, row.comment_count, row.reaction_count,
                                   row.zap_count, now, w))
    IN  { [i \in 1..Len(Take(ord, limit)) |-> Note(ord[i])]
          : ord \in OrderedByEngagement(viral) }

----------------------------------------------------------------------------
(* The feed composer.  Two builds of it are part of the repository: the one  *)
(* of src/unnamed/part_006 and the one of src/unnamed/part_004.              *)
Builds == {"part_006", "part_004"}

numFeedVariants == 5
variantFeedSize == 100

Range(seq) == {seq[j] : j \in 1..Len(seq)}

(* mutant: the lists are not filtered by kind *)
FilterAnyKind(feed, kind) == feed

FilterKind(feed, kind) == SelectSeq(feed, LAMBDA n : n.Event.Kind = kind)

NotesOfAuthor(feed, authorID) == SelectSeq(feed, LAMBDA n : n.Event.PubKey = authorID)

AuthorsOf(feed) == {n.Event.PubKey : n \in Range(feed)}

(* the orders in which a Go map over the given keys can be iterated *)
RECURSIVE Orders(_)
Orders(S) ==
    IF S = {} THEN {<<>>}
    ELSE UNION { {<<x>> \o rest : rest \in Orders(S \ {x})} : x \in S }

(* every list whose i-th element is one of choices[i] *)
RECURSIVE Product(_)
Product(choices) ==
    IF choices = <<>> THEN {<<>>}
    ELSE { <<x>> \o rest : x \in Head(choices), rest \in Product(Tail(choices)) }

(* "Add viral notes, ensuring no duplicate authors": the loop over the viral *)
(* feed from position j on; feed is the bag of the notes of the variant.     *)
RECURSIVE Blend(_, _, _, _, _)
Blend(feed, usedAuthors, viral, j, variantSize) ==
    IF j > Len(viral) \/ BagCardinality(feed) >= variantSize
    THEN [feed |-> feed, usedAuthors |-> usedAuthors]
    ELSE LET authorID == viral[j].Event.PubKey
         IN  IF authorID \notin usedAuthors
             THEN Blend(feed (+) SetToBag({viral[j]}), usedAuthors \cup {authorID},
                        viral, j + 1, variantSize)
             ELSE Blend(feed, usedAuthors, viral, j + 1, variantSize)

SortAndTruncate(feed, variantSize) ==
    {Take(sorted, variantSize) : sorted \in SortedByScore(feed)}

(* part_006: variant i (from 0) takes notes[i], or notes[i % len(notes)],    *)
(* of every author, marks the author used, and then blends the viral feed.   *)
SeedWrapAround(authorFeed, i) ==
    LET Pick(a) == LET notesOfA == NotesOfAuthor(authorFeed, a)
                   IN  notesOfA[(i % Len(notesOfA)) + 1]
    IN  SetToBag({Pick(a) : a \in AuthorsOf(authorFeed)})

VariantsOfKind006(authorFeed, viralFeed, variantSize, kind) ==
    LET filteredAuthorFeed == FilterKind(authorFeed, kind)
        filteredViralFeed == FilterKind(viralFeed, kind)
        Variant(i) ==
            SortAndTruncate(
                Blend(SeedWrapAround(filteredAuthorFeed, i), AuthorsOf(filteredAuthorFeed),
                      filteredViralFeed, 1, variantSize).feed,
                variantSize)
    IN  Product([i \in 1..numFeedVariants |-> Variant(i - 1)])

(* generateFeedVariants of part_006: a map from each kind to its variants *)
generateFeedVariants(authorFeed, viralFeed, variantSize, kinds) ==
    { m \in [Range(kinds) ->
                UNION {VariantsOfKind006(authorFeed, viralFeed, variantSize, k)
                       : k \in Range(kinds)}] :
        \A k \in Range(kinds) :
            m[k] \in VariantsOfKind006(authorFeed, viralFeed, variantSize, k) }

(* part_004: "Distribute one note per author across all variants": the       *)
(* authors are visited in map order; notes[i] goes to variant i while that   *)
(* variant is not full.                                                      *)
RECURSIVE Distribute(_, _, _, _)
Distribute(feedVariants, authorFeed, order, variantSize) ==
    IF order = <<>> THEN feedVariants
    ELSE LET notesOfA == NotesOfAuthor(authorFeed, Head(order))
             next == [i \in 1..numFeedVariants |->
                        IF i <= Len(notesOfA) /\ BagCardinality(feedVariants[i]) < variantSize
                        THEN feedVariants[i] (+) SetToBag({notesOfA[i]})
                        ELSE feedVariants[i]]
         IN  Distribute(next, authorFeed, Tail(order), variantSize)

(* part_004: the viral loop runs over the variants in turn with one          *)
(* usedAuthors map for all of them, initially empty.                         *)
RECURSIVE BlendAll(_, _, _, _, _)
BlendAll(feedVariants, usedAuthors, viral, i, variantSize) ==
    IF i > numFeedVariants THEN feedVariants
    ELSE LET b == Blend(feedVariants[i], usedAuthors, viral, 1, variantSize)
         IN  BlendAll([feedVariants EXCEPT ![i] = b.feed], b.usedAuthors,
                      viral, i + 1, variantSize)

(* generateFeedVariants of part_004: the list of variants of one kind *)
generateFeedVariantsOfKind(authorFeed, viralFeed, variantSize, kind) ==
    LET filteredAuthorFeed == FilterKind(authorFeed, kind)
        filteredViralFeed == FilterKind(viralFeed, kind)
        empty == [i \in 1..numFeedVariants |-> EmptyBag]
        Blended(order) ==
            BlendAll(Distribute(empty, filteredAuthorFeed, order, variantSize),
                     {}, filteredViralFeed, 1, variantSize)
    IN  UNION { Product([i \in 1..numFeedVariants |->
                            SortAndTruncate(Blended(order)[i], variantSize)])
                : order \in Orders(AuthorsOf(filteredAuthorFeed)) }

----------------------------------------------------------------------------
(* The feed cache and the request coalescer: GetUserFeed *)
feedCacheDuration == 5 * Minute

(* Bounds of the feed model *)
MaxProcs == 2           \* goroutines serving feed requests concurrently
MaxRequests == 2        \* GetUserFeed calls explored when calls overlap
MaxSeqRequests == 6     \* GetUserFeed calls explored when one goroutine serves them in turn
MaxMinutes == 5         \* minutes of wall-clock time explored by the feed model
MaxFailProcs == 3       \* goroutines of the model of a failed generation
MaxFailRequests == 3    \* GetUserFeed calls explored around a failed generation
TickStep == 5 * Minute  \* the clock of the feed model advances in steps of the cache lifetime
FeedEpoch == 10 * Day   \* the time at which the feed model starts

Viewers == {"V"}
Filters == { [Limit |-> 0, Kinds |-> <<>>],
             [Limit |-> 2, Kinds |-> <<1>>],
             [Limit |-> 2, Kinds |-> <<20, 1>>] }
DefaultLimit == 50
KindTextNote == 1
KindsAsked == {KindTextNote} \cup {f.Kinds[1] : f \in {g \in Filters : Len(g.Kinds) > 0}}

getCacheKey(userID, kind) == <<userID, "_kind_", kind>>

RequestKeys == {getCacheKey(u, k) : u \in Viewers, k \in KindsAsked}
CacheKeys == RequestKeys \cup {<<u>> : u \in Viewers}

(* CachedFeeds{} with ok = false: what getCachedUserFeeds returns on a miss; *)
(* born is history: the now of the call that generated the entry            *)
NoEntry == [Feeds |-> <<>>, Timestamp |-> 0, LastServedIndex |-> 0, ok |-> FALSE,
            born |-> 0]
NoChan == 0
DBError == "pq: database error"
WaitError == "feed generation failed after waiting for cache"

IdleReq == [pc |-> "idle", userID |-> "", kind |-> 0, limit |-> 0, now |-> 0,
            cached |-> NoEntry, pending |-> NoChan, authorFeed |-> <<>>,
            result |-> <<>>, err |-> NoErr, served |-> -1,
            cancelled |-> FALSE, \* the ctx of the call is done
            k |-> 0,             \* history: the position of the call in its run, chain[key].k
            emptyAtStart |-> FALSE]  \* history: no entry was cached when the call started

getCachedUserFeeds(userID, kind) == userFeedCache[getCacheKey(userID, kind)]

Fresh(cached, now) == cached.ok /\ now - cached.Timestamp < feedCacheDuration

SetKey(f, k, v) == [x \in DOMAIN f \cup {k} |-> IF x = k THEN v ELSE f[x]]

(* storeCachedUserFeeds: part_006 stores the entry under the cache key;      *)
(* part_004 sets Feeds[kind] and Timestamp = time.Now() and stores the       *)
(* entry under the user id.                                                  *)
StoreKey(userID, kind) ==
    IF build = "part_004" THEN <<userID>> ELSE getCacheKey(userID, kind)

StoredEntry(kind, feedVariants, cachedFeeds) ==
    IF build = "part_004"
    THEN [cachedFeeds EXCEPT !.Feeds = SetKey(@, kind, feedVariants),
                             !.Timestamp = clock, !.ok = TRUE]
    ELSE [cachedFeeds EXCEPT !.ok = TRUE]

storeCachedUserFeeds(userID, kind, feedVariants, cachedFeeds) ==
    userFeedCache' = [userFeedCache EXCEPT ![StoreKey(userID, kind)] =
                                        StoredEntry(kind, feedVariants, cachedFeeds)]

RequestBound ==
    IF Cardinality(procs) = 1 THEN MaxSeqRequests
    ELSE IF Cardinality(procs) = MaxProcs THEN MaxRequests
    ELSE MaxFailRequests

Running(q) == req[q].pc \notin {"idle", "done"}

(* GetUserFeed up to the first cache check *)
GetUserFeedStart(p, userID, limit, kind) ==
    /\ ~Running(p)
    /\ started < RequestBound
    /\ LET cached == getCachedUserFeeds(userID, kind)
           hit == Fresh(cached, clock)
           key == getCacheKey(userID, kind)
           next == IF chain[key].k > 0 /\ clock - chain[key].first < feedCacheDuration
                   THEN [chain[key] EXCEPT !.k = @ + 1]
                   ELSE [k |-> 1, first |-> clock]
       IN  /\ req' = [req EXCEPT ![p] =
                        [IdleReq EXCEPT !.pc = IF hit THEN "serveCached" ELSE "lock",
                                        !.userID = userID, !.kind = kind, !.limit = limit,
                                        !.now = clock,
                                        !.cached = IF hit THEN cached ELSE NoEntry,
                                        !.k = next.k, !.emptyAtStart = ~cached.ok]]
           /\ chain' = [chain EXCEPT ![key] = next]
    /\ started' = started + 1
    /\ sequential' = (sequential /\ \A q \in procs \ {p} : ~Running(q))
    /\ allOverlap' = (allOverlap /\ \A q \in procs : req[q].pc # "done")
    /\ UNCHANGED <<clock, dbVars, repoVars, janitorVars, relayVars, build, weights, viralVars,
                   cacheVars, procs, composerCalls, composerErrs, failedGen>>

(* relay.QueryEvents: the limit defaults to 50, the kind to kinds[0] or 1 *)
QueryEvents ==
    \E p \in procs, userID \in Viewers, filter \in Filters :
        LET limit == IF filter.Limit = 0 THEN DefaultLimit ELSE filter.Limit
            kind == IF Len(filter.Kinds) = 0 THEN KindTextNote ELSE filter.Kinds[1]
        IN  GetUserFeedStart(p, userID, limit, kind)

(* mutant: the existence check always fails *)
PendingNeverExists(cacheKey) == FALSE

(* mutant: one pending generation, for whatever key, makes every call wait *)
PendingAnyKey(cacheKey) == \E key \in RequestKeys : pendingRequests[key] # NoChan

PendingExists(cacheKey) == pendingRequests[cacheKey] # NoChan

(* pendingRequestsMutex.Lock() ... Unlock(): the existence check and the     *)
(* installation of the channel                                               *)
LockPending ==
    \E p \in procs :
        /\ req[p].pc = "lock"
        /\ LET cacheKey == getCacheKey(req[p].userID, req[p].kind)
           IN  IF PendingExists(cacheKey)
               THEN /\ req' = [req EXCEPT ![p].pc = "wait",
                                          ![p].pending = pendingRequests[cacheKey]]
                    /\ UNCHANGED <<pendingRequests, nextChan>>
               ELSE /\ req' = [req EXCEPT ![p].pc = "compose", ![p].pending = nextChan]
                    /\ pendingRequests' = [pendingRequests EXCEPT ![cacheKey] = nextChan]
                    /\ nextChan' = nextChan + 1
        /\ UNCHANGED <<clock, dbVars, repoVars, janitorVars, relayVars, build, weights, viralVars,
                       userFeedCache, closed, procs, histVars>>

(* <-pending, then the cache is read again with the caller's own now *)
WaitPending ==
    \E p \in procs :
        /\ req[p].pc = "wait"
        /\ req[p].pending \in closed
        /\ LET cached == getCachedUserFeeds(req[p].userID, req[p].kind)
           IN  IF Fresh(cached, req[p].now)
               THEN req' = [req EXCEPT ![p].pc = "serveCached", ![p].cached = cached,
                                       ![p].pending = NoChan]
               ELSE req' = [req EXCEPT ![p].pc = "done", ![p].err = WaitError,
                                       ![p].pending = NoChan]
        /\ UNCHANGED <<clock, dbVars, repoVars, janitorVars, relayVars, build, weights, viralVars,
                       cacheVars, procs, histVars>>

Compose(p, authorFeed, err) ==
    /\ req[p].pc = "compose"
    /\ req' = [req EXCEPT ![p].pc = IF err = NoErr THEN "generate" ELSE "cleanup",
                          ![p].authorFeed = authorFeed, ![p].err = err]
    /\ composerCalls' = [composerCalls EXCEPT
                            ![getCacheKey(req[p].userID, req[p].kind)] = @ + 1]
    /\ composerErrs' = composerErrs + (IF err = NoErr THEN 0 ELSE 1)
    /\ UNCHANGED <<clock, dbVars, repoVars, janitorVars, relayVars, build, weights, viralVars,
                   cacheVars, procs, started, sequential, allOverlap, chain, failedGen>>

(* repository.GetUserFeedByAuthors returns the author feed *)
ComposeAuthorFeed ==
    \E p \in procs :
        /\ req[p].pc = "compose"
        /\ \E authorFeed \in GetUserFeedByAuthors(CurrentDB, req[p].userID, clock, weights) :
              Compose(p, authorFeed, NoErr)

(* repository.GetUserFeedByAuthors returns an error *)
ComposeFails == \E p \in procs : Compose(p, <<>>, DBError)

(* the viral feed is read, the variants are generated and the entry stored *)
GenerateAndStore ==
    \E p \in procs :
        /\ req[p].pc = "generate"
        /\ LET r == req[p]
               viralFeed == viralNoteCache.notes
               Store(feedVariants, cachedFeeds) ==
                   /\ storeCachedUserFeeds(r.userID, r.kind, feedVariants, cachedFeeds)
                   /\ req' = [req EXCEPT ![p].pc = "serveGenerated", ![p].authorFeed = <<>>,
                                 ![p].cached = StoredEntry(r.kind, feedVariants, cachedFeeds)]
           IN  IF build = "part_004"
               THEN \E feedVariants \in generateFeedVariantsOfKind(
                                            r.authorFeed, viralFeed, variantFeedSize, r.kind) :
                        Store(feedVariants,
                              [getCachedUserFeeds(r.userID, r.kind) EXCEPT
                                  !.Feeds = SetKey(@, r.kind, feedVariants),
                                  !.Timestamp = r.now, !.LastServedIndex = -1,
                                  !.born = r.now])
               ELSE \E feeds \in generateFeedVariants(
                                            r.authorFeed, viralFeed, variantFeedSize, <<r.kind>>) :
                        Store(feeds[r.kind],
                              [Feeds |-> feeds, Timestamp |-> r.now,
                               LastServedIndex |-> -1, ok |-> TRUE, born |-> r.now])
        /\ UNCHANGED <<clock, dbVars, repoVars, janitorVars, relayVars, build, weights, viralVars,
                       pendingRequests, nextChan, closed, procs, histVars>>

Min(a, b) == IF a <= b THEN a ELSE b

(* serveSequentialFeedResult on the goroutine's copy of the entry *)
serveSequentialFeedResult(p, nextPc) ==
    LET r == req[p]
        cachedFeeds == r.cached
        Returned(result, nextIndex) ==
            [r EXCEPT !.pc = nextPc, !.cached = NoEntry, !.result = result,
                      !.served = nextIndex]
    IN  IF r.kind \notin DOMAIN cachedFeeds.Feeds \/ Len(cachedFeeds.Feeds[r.kind]) = 0
        THEN /\ req' = [req EXCEPT ![p] = Returned(<<>>, -1)]
             /\ UNCHANGED userFeedCache
        ELSE LET feedVariants == cachedFeeds.Feeds[r.kind]
                 nextIndex == (cachedFeeds.LastServedIndex + 1) % Len(feedVariants)
                 selectedFeed == feedVariants[nextIndex + 1]
             IN  /\ storeCachedUserFeeds(r.userID, r.kind, feedVariants,
                        [cachedFeeds EXCEPT !.LastServedIndex = nextIndex])
                 /\ req' = [req EXCEPT ![p] =
                              Returned([i \in 1..Min(r.limit, Len(selectedFeed)) |->
                                            selectedFeed[i].Event], nextIndex)]

ServeCached ==
    \E p \in procs :
        /\ req[p].pc = "serveCached"
        /\ serveSequentialFeedResult(p, "done")
        /\ UNCHANGED <<clock, dbVars, repoVars, janitorVars, relayVars, build, weights, viralVars,
                       pendingRequests, nextChan, closed, procs, histVars>>

ServeGenerated ==
    \E p \in procs :
        /\ req[p].pc = "serveGenerated"
        /\ serveSequentialFeedResult(p, "cleanup")
        /\ UNCHANGED <<clock, dbVars, repoVars, janitorVars, relayVars, build, weights, viralVars,
                       pendingRequests, nextChan, closed, procs, histVars>>

(* mutant: the deferred function closes the channel and keeps the key *)
ClosePendingKeepsKey ==
    \E p \in procs :
        /\ req[p].pc = "cleanup"
        /\ closed' = closed \cup {req[p].pending}
        /\ req' = [req EXCEPT ![p].pc = "done", ![p].pending = NoChan]
        /\ failedGen' = IF req[p].err # NoErr THEN failedGen \cup {req[p].pending}
                        ELSE failedGen
        /\ UNCHANGED <<clock, dbVars, repoVars, janitorVars, relayVars, build, weights, viralVars,
                       userFeedCache, pendingRequests, nextChan, procs, started, composerCalls,
                       composerErrs, sequential, allOverlap, chain>>
(* mutant: the cleanup is not deferred, and the return on an error of the    *)
(* composer skips it                                                         *)
ClosePendingOnSuccessOnly ==
    \E p \in procs :
        /\ req[p].pc = "cleanup"
        /\ IF req[p].err = NoErr
           THEN /\ closed' = closed \cup {req[p].pending}
                /\ pendingRequests' = [pendingRequests EXCEPT
                                          ![getCacheKey(req[p].userID, req[p].kind)] = NoChan]
           ELSE UNCHANGED <<closed, pendingRequests>>
        /\ req' = [req EXCEPT ![p].pc = "done", ![p].pending = NoChan]
        /\ failedGen' = IF req[p].err # NoErr THEN failedGen \cup {req[p].pending}
                        ELSE failedGen
        /\ UNCHANGED <<clock, dbVars, repoVars, janitorVars, relayVars, build, weights, viralVars,
                       userFeedCache, nextChan, procs, started, composerCalls, composerErrs,
                       sequential, allOverlap, chain>>

(* the deferred function: close(pending); delete(pendingRequests, cacheKey) *)
ClosePending ==
    \E p \in procs :
        /\ req[p].pc = "cleanup"
        /\ closed' = closed \cup {req[p].pending}
        /\ pendingRequests' = [pendingRequests EXCEPT
                                  ![getCacheKey(req[p].userID, req[p].kind)] = NoChan]
        /\ req' = [req EXCEPT ![p].pc = "done", ![p].pending = NoChan]
        /\ failedGen' = IF req[p].err # NoErr THEN failedGen \cup {req[p].pending}
                        ELSE failedGen
        /\ UNCHANGED <<clock, dbVars, repoVars, janitorVars, relayVars, build, weights, viralVars,
                       userFeedCache, nextChan, procs, started, composerCalls, composerErrs,
                       sequential, allOverlap, chain>>

(* the caller of a generating call cancels its ctx while the generation is  *)
(* in flight.  GetUserFeed hands ctx to GetUserFeedByAuthors, whose queries  *)
(* run under context.Background(), and relay.QueryEvents sends the events    *)
(* without a look at ctx: nothing but the ctx changes.                       *)
CancelRequest ==
    \E p \in procs :
        /\ req[p].pc \in {"compose", "generate"}
        /\ ~req[p].cancelled
        /\ req' = [req EXCEPT ![p].cancelled = TRUE]
        /\ UNCHANGED <<clock, dbVars, repoVars, janitorVars, relayVars, build, weights, viralVars,
                       cacheVars, procs, histVars>>

GetUserFeed ==
    \/ QueryEvents \/ LockPending \/ WaitPending \/ ComposeAuthorFeed \/ ComposeFails
    \/ GenerateAndStore \/ ServeCached \/ ServeGenerated \/ ClosePending

(* refreshViralNotes: at startup and then every hour *)
RefreshViral ==
    /\ clock >= refreshDue
    /\ \E viral \in GetViralPosts(CurrentDB, clock, ViralLimit, weights) :
            viralNoteCache' = [notes |-> viral, Timestamp |-> clock]
    /\ refreshDue' = clock + Hour
    /\ UNCHANGED <<clock, dbVars, repoVars, janitorVars, relayVars, build, weights, cacheVars,
                   procs, req, histVars>>

(* mutant: a failed refresh empties the cache *)
RefreshViralFailsClearsPool ==
    /\ clock >= refreshDue
    /\ viralNoteCache' = [notes |-> <<>>, Timestamp |-> clock]
    /\ refreshDue' = clock + Hour
    /\ UNCHANGED <<clock, dbVars, repoVars, janitorVars, relayVars, build, weights,
                   cacheVars, procs, req, histVars>>

(* GetViralPosts fails: the cache keeps what it had *)
RefreshViralFails ==
    /\ clock >= refreshDue
    /\ refreshDue' = clock + Hour
    /\ UNCHANGED <<clock, dbVars, repoVars, janitorVars, relayVars, build, weights, viralNoteCache,
                   cacheVars, procs, req, histVars>>

refreshViralNotes == RefreshViral \/ RefreshViralFails

Tick ==
    /\ clock + TickStep <= FeedEpoch + MaxMinutes * Minute
    /\ clock' = clock + TickStep
    /\ UNCHANGED <<dbVars, repoVars, janitorVars, feedVars>>

----------------------------------------------------------------------------
(* The relay's handlers for the messages of a subscriber *)
Mains == {"part_001", "part_002"}

(* khatru.GetAuthed(ctx): the pubkey the connection authenticated as, or "" *)
Connections == {""} \cup Viewers

ReqFilters == { [Limit |-> f.Limit, Kinds |-> f.Kinds, Authors |-> a] :
                    f \in Filters, a \in {<<>>, <<"A">>} }

AuthRequired == "auth-required: this query requires you to be authenticated"
OnlyAlgorithmicFeeds == "this relay is only for algorithmic feeds"
CannotPublish == "you cannot publish to this relay"
IndexOutOfRange == "panic: runtime error: index out of range [0] with length 0"

NoNotice == [msg |-> "", reason |-> ""]

(* mutant: the check of filter.Authors is missing *)
RejectUnauthenticatedOnly(authenticatedUser, filter) ==
    IF authenticatedUser = "" THEN [reject |-> TRUE, reason |-> AuthRequired]
    ELSE [reject |-> FALSE, reason |-> ""]
(* relay.RejectFilter *)
RejectFilter(authenticatedUser, filter) ==
    IF authenticatedUser = "" THEN [reject |-> TRUE, reason |-> AuthRequired]
    ELSE IF Len(filter.Authors) > 0 THEN [reject |-> TRUE, reason |-> OnlyAlgorithmicFeeds]
    ELSE [reject |-> FALSE, reason |-> ""]

(* mutant: events of authenticated subscribers are accepted *)
RejectEventUnauthenticated(authenticatedUser, event) ==
    IF authenticatedUser = "" THEN [reject |-> TRUE, reason |-> CannotPublish]
    ELSE [reject |-> FALSE, reason |-> ""]
(* relay.RejectEvent *)
RejectEvent(authenticatedUser, event) == [reject |-> TRUE, reason |-> CannotPublish]

(* the goroutine of relay.QueryEvents up to the first cache check of        *)
(* GetUserFeed; part_002 indexes copyFilter.Kinds[0] whatever its length    *)
QueryEventsOf(p, authenticatedUser, filter) ==
    LET limit == IF filter.Limit = 0 THEN DefaultLimit ELSE filter.Limit
    IN  IF Len(filter.Kinds) = 0 /\ main = "part_002"
        THEN /\ ~Running(p)
             /\ started < RequestBound
             /\ req' = [req EXCEPT ![p] = [IdleReq EXCEPT !.pc = "panic",
                                              !.userID = authenticatedUser,
                                              !.limit = limit,
                                              !.err = IndexOutOfRange]]
             /\ started' = started + 1
             /\ UNCHANGED <<clock, dbVars, repoVars, janitorVars, relayVars, build, weights,
                            viralVars, cacheVars, procs, composerCalls, composerErrs,
                            sequential, allOverlap, chain, failedGen>>
        ELSE LET kind == IF Len(filter.Kinds) = 0 THEN KindTextNote ELSE filter.Kinds[1]
             IN  GetUserFeedStart(p, authenticatedUser, limit, kind)

(* a REQ message: the filter passes relay.RejectFilter before it reaches    *)
(* relay.QueryEvents                                                        *)
SubscribeOf(authenticatedUser, filter) ==
    LET r == RejectFilter(authenticatedUser, filter)
    IN  IF r.reject
        THEN /\ notice' = [msg |-> "REQ", reason |-> r.reason]
             /\ UNCHANGED <<clock, dbVars, repoVars, janitorVars, build, weights, viralVars,
                            cacheVars, procs, req, histVars, calc, main, userSettings, httpReply>>
        ELSE \E p \in procs : QueryEventsOf(p, authenticatedUser, filter)

Subscribe == \E authenticatedUser \in Connections, filter \in ReqFilters :
                SubscribeOf(authenticatedUser, filter)

(* the events a subscriber tries to publish, and that upstream relays deliver *)
PublishEvents == { Ev("p1", "V", 1, FeedEpoch, <<>>) }

(* an EVENT message: relay.RejectEvent decides; an event that is not         *)
(* rejected would be handed to the store                                     *)
PublishOf(authenticatedUser, event) ==
    LET r == RejectEvent(authenticatedUser, event)
    IN  IF r.reject
        THEN /\ notice' = [msg |-> "EVENT", reason |-> r.reason]
             /\ UNCHANGED <<clock, dbVars, repoVars, janitorVars, build, weights, viralVars,
                            cacheVars, procs, req, histVars, calc, main, userSettings, httpReply>>
        ELSE /\ SetDB(SaveNostrEventResult(CurrentDB, event).db)
             /\ notice' = [msg |-> "EVENT", reason |-> ""]
             /\ UNCHANGED <<clock, repoVars, janitorVars, build, weights, viralVars,
                            cacheVars, procs, req, histVars, calc, main, userSettings, httpReply>>

Publish == \E authenticatedUser \in Connections, event \in PublishEvents :
                PublishOf(authenticatedUser, event)

(* subscribeAll while the relay serves subscribers *)
IngestUpstream == \E event \in PublishEvents : Ingest(event)

----------------------------------------------------------------------------
(* The settings endpoint: handleUserSettings *)
StatusOK == 200
StatusBadRequest == 400
StatusUnauthorized == 401
StatusInternalServerError == 500
authWindow == 5 * Minute

SettingsPubKeys == {"X", "Y"}
NoSettings == [set |-> FALSE, Recency |-> 0]
NoReply == [status |-> 0, body |-> ""]

(* the bodies a client can post: the settings, and a signed event whose      *)
(* created_at is given relative to the server's clock                        *)
SettingsBodies ==
    [ Settings : [PubKey : {""} \cup SettingsPubKeys, Recency : {-1, 1, 2}],
      SignedEvent : [PubKey : SettingsPubKeys,
                     CreatedAt : {-2 * authWindow, -authWindow, 0, 2 * authWindow},
                     Sig : {"valid", "invalid", "malformed"}] ]

(* event.CheckSignature() *)
CheckSignature(event) ==
    IF event.Sig = "malformed" THEN [ok |-> FALSE, err |-> "signature is invalid hex"]
    ELSE [ok |-> event.Sig = "valid", err |-> NoErr]

validateSettings(settings) ==
    IF settings.Recency < 0 THEN "settings values cannot be negative" ELSE NoErr

PubKeyMatches(event, settings) == event.PubKey = settings.PubKey

(* time.Since(eventTime) > 5 * time.Minute *)
TooOld(createdAt, now) == now - createdAt > authWindow

(* the POST branch up to the call of SaveUserSettings: the response that    *)
(* ends the request, or status 0 when the settings are to be saved          *)
CheckSettingsRequest(body, now) ==
    LET settings == body.Settings
        event == [body.SignedEvent EXCEPT !.CreatedAt = now + @]
        sig == CheckSignature(event)
    IN  IF settings.PubKey = ""
        THEN [status |-> StatusBadRequest, body |-> "Missing pubkey in settings"]
        ELSE IF sig.err # NoErr
        THEN [status |-> StatusUnauthorized, body |-> "Error verifying signature"]
        ELSE IF ~sig.ok
        THEN [status |-> StatusUnauthorized, body |-> "Invalid signature"]
        ELSE IF ~PubKeyMatches(event, settings)
        THEN [status |-> StatusUnauthorized,
              body |-> "Pubkey mismatch between signed event and settings"]
        ELSE IF TooOld(event.CreatedAt, now)
        THEN [status |-> StatusUnauthorized, body |-> "Authentication event is too old"]
        ELSE IF validateSettings(settings) # NoErr
        THEN [status |-> StatusBadRequest, body |-> validateSettings(settings)]
        ELSE NoReply

PostSettingsOf(body, saved) ==
    LET r == CheckSettingsRequest(body, clock)
    IN  /\ IF r # NoReply
           THEN httpReply' = r /\ UNCHANGED userSettings
           ELSE IF saved
           THEN /\ userSettings' = [userSettings EXCEPT ![body.Settings.PubKey] =
                                        [set |-> TRUE, Recency |-> body.Settings.Recency]]
                /\ httpReply' = [status |-> StatusOK, body |-> "success"]
           ELSE /\ httpReply' = [status |-> StatusInternalServerError,
                                 body |-> "Error saving settings"]
                /\ UNCHANGED userSettings
        /\ UNCHANGED <<clock, dbVars, repoVars, janitorVars, build, weights, viralVars,
                       cacheVars, procs, req, histVars, calc, main, notice>>

PostSettings == \E body \in SettingsBodies, saved \in BOOLEAN : PostSettingsOf(body, saved)

GetSettings ==
    \E pubkey \in {""} \cup SettingsPubKeys :
        /\ httpReply' = IF pubkey = ""
                        THEN [status |-> StatusBadRequest, body |-> "Missing pubkey parameter"]
                        ELSE IF userSettings[pubkey].set
                        THEN [status |-> StatusOK, body |-> "stored settings"]
                        ELSE [status |-> StatusOK, body |-> "default settings"]
        /\ UNCHANGED <<clock, dbVars, repoVars, janitorVars, build, weights, viralVars,
                       cacheVars, procs, req, histVars, calc, main, notice, userSettings>>

handleUserSettings == GetSettings \/ PostSettings

----------------------------------------------------------------------------
(* Loading the weights, and the scoring functions evaluated on their own *)
EnvKeys ==
    [weightInteractionsWithAuthor |-> "WEIGHT_INTERACTIONS_WITH_AUTHOR",
     weightCommentsGlobal |-> "WEIGHT_COMMENTS_GLOBAL",
     weightReactionsGlobal |-> "WEIGHT_REACTIONS_GLOBAL",
     weightZapsGlobal |-> "WEIGHT_ZAPS_GLOBAL",
     weightRecency |-> "WEIGHT_RECENCY", viralThreshold |-> "VIRAL_THRESHOLD",
     viralNoteDampening |-> "VIRAL_NOTE_DAMPENING", decayRate |-> "DECAY_RATE"]

EnvNames == {EnvKeys[f] : f \in DOMAIN EnvKeys}

(* the values an operator may give a variable; "" is an unset variable *)
EnvValues == {"", "abc", "2", " 0.5 ", "-1"}

(* the environments explored: nothing set, or one variable set *)
Environments ==
    { [n \in EnvNames |-> IF n = m THEN v ELSE ""] : m \in EnvNames, v \in EnvValues }

(* strings.TrimSpace on the values above *)
TrimSpace(s) == IF s = " 0.5 " THEN "0.5" ELSE s

(* strconv.ParseFloat on the trimmed values above, in thousandths *)
ParseFloat(s) ==
    IF s = "2" THEN [val |-> 2000, err |-> NoErr]
    ELSE IF s = "0.5" THEN [val |-> 500, err |-> NoErr]
    ELSE IF s = "-1" THEN [val |-> -1000, err |-> NoErr]
    ELSE [val |-> 0, err |-> "strconv.ParseFloat: parsing: invalid syntax"]

(* getWeightFloat64: an unset or unparseable variable gives 1 *)
getWeightFloat64(env, envKey) ==
    LET weight == TrimSpace(env[envKey])
        w == ParseFloat(weight)
    IN  IF weight = "" THEN 1000
        ELSE IF w.err # NoErr THEN 1000
        ELSE w.val

(* main: the eight weights are read once, at startup *)
LoadWeights(env) == [f \in DOMAIN EnvKeys |-> getWeightFloat64(env, EnvKeys[f])]

(* floor(1000 * exp(-q/2)) for q = -8 .. 13 *)
ExpMilliTable ==
    <<54598, 33115, 20085, 12182, 7389, 4481, 2718, 1648, 1000, 606, 367, 223, 135,
      82, 49, 30, 18, 11, 6, 4, 2, 1>>

ExpMilli(q) == IF q < -8 THEN ExpMilliTable[1] ELSE IF q > 13 THEN 0 ELSE ExpMilliTable[q + 9]

(* calculateRecencyFactor of src/unnamed/part_007, in thousandths:            *)
(* exp(-decayRate * hours), neither scaled nor clamped                        *)
calculateRecencyFactor007(createdAt, now, w) ==
    LET minutes == now - createdAt
        x == (w.decayRate * minutes) \div Hour
    IN  ExpMilli(x \div 500)

RecencyVariants == {"part_006", "part_007"}

(* bounds of the scoring model *)
MaxCount == 2           \* largest comment, reaction, zap and interaction count explored
ScoreAges == {-2 * Hour, 0, 3 * Hour, 5 * Hour, 8 * Hour, 2 * Day}

Meta(createdAt, c, r, z) ==
    [CreatedAt |-> createdAt, GlobalCommentsCount |-> c,
     GlobalReactionsCount |-> r, GlobalZapsCount |-> z]

NoCalc == [fn |-> "", variant |-> "", c |-> 0, r |-> 0, z |-> 0, i |-> 0,
           createdAt |-> 0, now |-> 0, out |-> 0, userID |-> "", rows |-> <<>>]

ScoreNote ==
    /\ \E c \in 0..MaxCount, r \in 0..MaxCount, z \in 0..MaxCount, i \in 0..MaxCount,
          age \in ScoreAges :
            calc' = [NoCalc EXCEPT
                        !.fn = "calculateAuthorNoteScore", !.variant = "part_006",
                        !.c = c, !.r = r, !.z = z, !.i = i,
                        !.createdAt = clock - age, !.now = clock,
                        !.out = calculateAuthorNoteScore(Meta(clock - age, c, r, z), i,
                                                         clock, weights)]
    /\ UNCHANGED <<clock, dbVars, repoVars, janitorVars, build, weights, viralVars,
                   cacheVars, procs, req, histVars, main, notice, userSettings, httpReply>>

RecencyOfNote ==
    /\ \E variant \in RecencyVariants, age \in ScoreAges :
            calc' = [NoCalc EXCEPT
                        !.fn = "calculateRecencyFactor", !.variant = variant,
                        !.createdAt = clock - age, !.now = clock,
                        !.out = IF variant = "part_007"
                                THEN calculateRecencyFactor007(clock - age, clock, weights)
                                ELSE calculateRecencyFactor(clock - age, clock, weights)]
    /\ UNCHANGED <<clock, dbVars, repoVars, janitorVars, build, weights, viralVars,
                   cacheVars, procs, req, histVars, main, notice, userSettings, httpReply>>

RelayIdle ==
    /\ main = "part_001"
    /\ notice = NoNotice
    /\ userSettings = [pubkey \in SettingsPubKeys |-> NoSettings]
    /\ httpReply = NoReply
    /\ calc = NoCalc

----------------------------------------------------------------------------
(* The notes, reactions and comments stored when the feed model starts *)
At(minutesAgo) == FeedEpoch - minutesAgo

ReactionTo(id, pk, noteId) == Ev(id, pk, 7, At(30), << <<"e", noteId>> >>)

SeedEvents ==
    << Ev("a1", "A", 1, At(Hour), <<>>),
       Ev("a2", "A", 1, At(2 * Day), <<>>),
       Ev("a3", "A", 1, At(8 * Day), <<>>),
       ReactionTo("rv1", "V", "a1"), ReactionTo("rv2", "V", "a1"),
       ReactionTo("rv3", "V", "a1"), ReactionTo("rv4", "V", "a1"),
       ReactionTo("rv5", "V", "a1"),
       Ev("v1", "V", 1, At(Hour), <<>>),
       ReactionTo("rb1", "B", "v1"),
       Ev("b1", "B", 1, At(6 * Hour), <<>>),
       ReactionTo("ra1", "A", "b1"), ReactionTo("ra2", "A", "b1") >>

RECURSIVE SaveAll(_, _)
SaveAll(db, events) ==
    IF events = <<>> THEN db
    ELSE SaveAll(SaveNostrEventResult(db, Head(events)).db, Tail(events))

SeedDB == SaveAll(EmptyDB, SeedEvents)

ComposerIdle ==
    /\ RelayIdle
    /\ build = "part_006"
    /\ viralNoteCache = [notes |-> <<>>, Timestamp |-> 0]
    /\ refreshDue = 0
    /\ userFeedCache = [key \in CacheKeys |-> NoEntry]
    /\ pendingRequests = [key \in RequestKeys |-> NoChan]
    /\ nextChan = 1
    /\ closed = {}
    /\ procs = {}
    /\ req = [p \in 1..MaxProcs |-> IdleReq]
    /\ started = 0
    /\ composerCalls = [key \in RequestKeys |-> 0]
    /\ composerErrs = 0
    /\ sequential = TRUE
    /\ allOverlap = TRUE
    /\ chain = [key \in RequestKeys |-> [k |-> 0, first |-> 0]]
    /\ failedGen = {}

FeedIdle == weights = DefaultWeights /\ ComposerIdle

(* the feed model starts from the seed database, for each build of the     *)
(* composer and each of the given builds of main                           *)
InitFeedMain(goroutines, mains) ==
    /\ main \in mains
    /\ notice = NoNotice
    /\ userSettings = [pubkey \in SettingsPubKeys |-> NoSettings]
    /\ httpReply = NoReply
    /\ calc = NoCalc
    /\ clock = FeedEpoch
    /\ notes = SeedDB.notes /\ comments = SeedDB.comments
    /\ reactions = SeedDB.reactions /\ zaps = SeedDB.zaps
    /\ lastSave = NoSave
    /\ months = 1 /\ purgePc = "idle" /\ purgeCutoff = 0 /\ passQuiet = FALSE
    /\ build \in Builds
    /\ weights = DefaultWeights
    /\ viralNoteCache = [notes |-> <<>>, Timestamp |-> 0]
    /\ refreshDue = FeedEpoch
    /\ userFeedCache = [key \in CacheKeys |-> NoEntry]
    /\ pendingRequests = [key \in RequestKeys |-> NoChan]
    /\ nextChan = 1
    /\ closed = {}
    /\ procs = goroutines
    /\ req = [p \in (1..MaxProcs) \cup goroutines |-> IdleReq]
    /\ started = 0
    /\ composerCalls = [key \in RequestKeys |-> 0]
    /\ composerErrs = 0
    /\ sequential = TRUE
    /\ allOverlap = TRUE
    /\ chain = [key \in RequestKeys |-> [k |-> 0, first |-> 0]]
    /\ failedGen = {}

InitFeed(goroutines) == InitFeedMain(goroutines, {"part_001"})

Init == InitFeed(1..MaxProcs)

Next == GetUserFeed \/ refreshViralNotes \/ Tick

Spec == Init /\ [][Next]_vars

(* the feed model with callers that cancel *)
InitCancel == InitFeed(1..MaxProcs)

NextCancel == GetUserFeed \/ CancelRequest \/ Tick

SpecCancel == InitCancel /\ [][NextCancel]_vars

(* the feed model under fair scheduling: the Go scheduler runs a runnable  *)
(* goroutine, so a step of GetUserFeed that stays possible is eventually    *)
(* taken; and the composer returns, with a feed or with an error: a call    *)
(* does not stay in GetUserFeedByAuthors or generateFeedVariants for ever.  *)
(* No request has to arrive, and the number of requests is bounded, so that *)
(* no call is passed over for ever.                                         *)
Composing == \E p \in procs : req[p].pc \in {"compose", "generate"}

Composed ==
    \E p \in procs : req[p].pc \in {"compose", "generate"} /\ req'[p].pc # req[p].pc

(* weak fairness of the steps of the composer, with the enabling condition  *)
(* written as the state predicate it is                                     *)
ComposerReturns == []<>(~Composing) \/ []<><<Composed>>_vars

SpecLive ==
    /\ Init /\ [][NextCancel]_vars
    /\ WF_vars(LockPending) /\ WF_vars(WaitPending)
    /\ WF_vars(ServeCached) /\ WF_vars(ServeGenerated) /\ WF_vars(ClosePending)
    /\ ComposerReturns

(* one goroutine: the requests are served one after the other, and no call  *)
(* finds the channel of another call to wait for                            *)
InitSeq == InitFeed({1})

NextSeq ==
    \/ QueryEvents \/ LockPending \/ ComposeAuthorFeed \/ ComposeFails
    \/ GenerateAndStore \/ ServeCached \/ ServeGenerated \/ ClosePending
    \/ refreshViralNotes \/ Tick

SpecSeq == InitSeq /\ [][NextSeq]_vars

(* generateFeedVariants on its own: a call of GetUserFeed that has fetched   *)
(* its author feed is about to read the viral feed and generate the          *)
(* variants; the author feed and the viral feed are drawn from the lists     *)
(* below, which hold notes of two kinds, of the viewer and of other authors. *)
Scored(id, pk, kind, score) == FeedNote(Ev(id, pk, kind, At(Hour), <<>>), score)

AuthorFeedChoices ==
    { <<>>,
      << Scored("x1", "A", 1, 9000000) >>,
      << Scored("x1", "A", 1, 9000000), Scored("t1", "D", 1, 9000000) >>,
      << Scored("x1", "A", 1, 9000000), Scored("x2", "A", 1, 8000000),
         Scored("y1", "B", 1, 6000000) >>,
      << Scored("x1", "A", 1, 9000000), Scored("x2", "A", 1, 8000000),
         Scored("x3", "A", 20, 7000000), Scored("y1", "B", 1, 6000000),
         Scored("y3", "B", 20, 6000000) >> }

ViralFeedChoices ==
    { <<>>,
      << Scored("x1", "A", 1, 5000000), Scored("z1", "C", 1, 4000000) >>,
      << Scored("z3", "C", 1, 6000000) >>,
      << Scored("z1", "C", 1, 4000000), Scored("y2", "B", 20, 3000000),
         Scored("w1", "V", 1, 2000000), Scored("z2", "C", 20, 2000000),
         Scored("x2", "A", 1, 1000000) >> }

InitVariants ==
    /\ RelayIdle
    /\ clock = FeedEpoch
    /\ notes = SeedDB.notes /\ comments = SeedDB.comments
    /\ reactions = SeedDB.reactions /\ zaps = SeedDB.zaps
    /\ lastSave = NoSave
    /\ months = 1 /\ purgePc = "idle" /\ purgeCutoff = 0 /\ passQuiet = FALSE
    /\ build \in Builds
    /\ weights = DefaultWeights
    /\ \E viralFeed \in ViralFeedChoices :
            viralNoteCache = [notes |-> viralFeed, Timestamp |-> FeedEpoch]
    /\ refreshDue = FeedEpoch + Hour
    /\ userFeedCache = [key \in CacheKeys |-> NoEntry]
    /\ nextChan = 2
    /\ closed = {}
    /\ procs = 1..MaxProcs
    /\ \E kind \in KindsAsked, authorFeed \in AuthorFeedChoices :
          LET mine == getCacheKey("V", kind)
          IN  /\ req = [p \in 1..MaxProcs |->
                          IF p = 1
                          THEN [IdleReq EXCEPT !.pc = "generate", !.userID = "V",
                                               !.kind = kind, !.limit = DefaultLimit,
                                               !.now = FeedEpoch, !.pending = 1,
                                               !.authorFeed = authorFeed, !.k = 1,
                                               !.emptyAtStart = TRUE]
                          ELSE IdleReq]
              /\ pendingRequests = [key \in RequestKeys |-> IF key = mine THEN 1 ELSE NoChan]
              /\ composerCalls = [key \in RequestKeys |-> IF key = mine THEN 1 ELSE 0]
              /\ chain = [key \in RequestKeys |->
                            IF key = mine THEN [k |-> 1, first |-> FeedEpoch]
                            ELSE [k |-> 0, first |-> 0]]
    /\ started = 1
    /\ composerErrs = 0
    /\ failedGen = {}
    /\ sequential = TRUE
    /\ allOverlap = TRUE

NextVariants == GetUserFeed

SpecVariants == InitVariants /\ [][NextVariants]_vars

(* the viral note cache over several refresh intervals *)
MaxViralHours == 4      \* hours of wall-clock time explored by the viral cache model

ViralSeedEvents ==
    << Ev("o1", "O", 1, At(3 * Day), <<>>),
       ReactionTo("ro1", "V", "o1"),
       Ev("m1", "M", 1, At(Hour), <<>>),
       Ev("cm1", "B", 1, At(30), << <<"e", "m1", "root">> >>),
       ReactionTo("rm1", "A", "m1"), ReactionTo("rm2", "B", "m1"),
       Ev("q1", "Q", 1, At(2 * Hour), <<>>) >>

ViralSeedDB == SaveAll(EmptyDB, ViralSeedEvents)

ViralUpstream == { ReactionTo("rm3", "V", "m1") }

ViralWeightChoices ==
    { DefaultWeights, [DefaultWeights EXCEPT !.viralThreshold = 4000] }

InitViral ==
    /\ clock = FeedEpoch
    /\ notes = ViralSeedDB.notes /\ comments = ViralSeedDB.comments
    /\ reactions = ViralSeedDB.reactions /\ zaps = ViralSeedDB.zaps
    /\ lastSave = NoSave
    /\ months = 1 /\ purgePc = "idle" /\ purgeCutoff = 0 /\ passQuiet = FALSE
    /\ RelayIdle
    /\ build = "part_006"
    /\ weights \in ViralWeightChoices
    /\ viralNoteCache = [notes |-> <<>>, Timestamp |-> 0]
    /\ refreshDue = FeedEpoch
    /\ userFeedCache = [key \in CacheKeys |-> NoEntry]
    /\ pendingRequests = [key \in RequestKeys |-> NoChan]
    /\ nextChan = 1
    /\ closed = {}
    /\ procs = {}
    /\ req = [p \in 1..MaxProcs |-> IdleReq]
    /\ started = 0
    /\ composerCalls = [key \in RequestKeys |-> 0]
    /\ composerErrs = 0
    /\ sequential = TRUE
    /\ allOverlap = TRUE
    /\ chain = [key \in RequestKeys |-> [k |-> 0, first |-> 0]]
    /\ failedGen = {}

IngestViral == \E event \in ViralUpstream : Ingest(event)

(* an hour passes; the ticker has run the refresh that was due before *)
TickHour ==
    /\ clock < refreshDue
    /\ clock + Hour <= FeedEpoch + MaxViralHours * Hour
    /\ clock' = clock + Hour
    /\ UNCHANGED <<dbVars, repoVars, janitorVars, feedVars>>

NextViral == refreshViralNotes \/ IngestViral \/ TickHour

SpecViral == InitViral /\ [][NextViral]_vars

(* the scoring functions under every environment explored *)
InitScore ==
    /\ clock = FeedEpoch
    /\ notes = EmptyBag /\ comments = EmptyBag
    /\ reactions = EmptyBag /\ zaps = EmptyBag
    /\ lastSave = NoSave
    /\ months = 1 /\ purgePc = "idle" /\ purgeCutoff = 0 /\ passQuiet = FALSE
    /\ weights \in {LoadWeights(env) : env \in Environments}
    /\ ComposerIdle

NextScore == ScoreNote \/ RecencyOfNote

SpecScore == InitScore /\ [][NextScore]_vars

(* three goroutines and three calls: a generation that fails, a call that   *)
(* waits for it, and a call that comes after it                             *)
InitFail == InitFeedMain(1..MaxFailProcs, {"part_001"})

NextFail == GetUserFeed

SpecFail == InitFail /\ [][NextFail]_vars

(* the relay serving subscribers while upstream events arrive *)
InitRelay == InitFeedMain(1..MaxProcs, Mains)

NextRelay ==
    \/ Subscribe \/ Publish \/ IngestUpstream
    \/ LockPending \/ WaitPending \/ ComposeAuthorFeed \/ ComposeFails
    \/ GenerateAndStore \/ ServeCached \/ ServeGenerated \/ ClosePending

SpecRelay == InitRelay /\ [][NextRelay]_vars

(* the settings endpoint on its own *)
InitSettings ==
    /\ clock = FeedEpoch
    /\ notes = EmptyBag /\ comments = EmptyBag
    /\ reactions = EmptyBag /\ zaps = EmptyBag
    /\ lastSave = NoSave
    /\ months = 1 /\ purgePc = "idle" /\ purgeCutoff = 0 /\ passQuiet = FALSE
    /\ FeedIdle

NextSettings == handleUserSettings \/ Tick

SpecSettings == InitSettings /\ [][NextSettings]_vars

(* fetchTopInteractedAuthors evaluated on its own, over the tables that     *)
(* the ingestion of the events below can produce                            *)
AuthorEvents ==
    { Ev("n1", "A", 1, 0, <<>>),
      Ev("n2", "B", 1, 0, <<>>),
      Ev("r1", "V", 7, 0, << <<"e", "n1">> >>),
      Ev("c1", "V", 1, 0, << <<"e", "n1", "root">> >>),
      Ev("r2", "B", 7, 0, << <<"e", "n1">> >>),
      Ev("r3", "V", 7, 0, << <<"e", "n2">> >>),
      Ev("z1", "Z", 9735, 0,
         << <<"e", "n2">>, <<"bolt11", "lnbc10u">>, <<"description", "{pubkey:V}">> >>) }

AuthorViewers == {"V", "B"}

(* the rows of the query in the orders ORDER BY interaction_count DESC allows *)
TopInteractedAuthorRows(db, userID) ==
    LET count == fetchTopInteractedAuthors(db, userID)
        sorted == {ord \in Orders(DOMAIN count) :
                      \A i \in 1..Len(ord), j \in 1..Len(ord) :
                          i < j => count[ord[i]] >= count[ord[j]]}
    IN  { [i \in 1..Len(ord) |-> [AuthorID |-> ord[i], InteractionCount |-> count[ord[i]]]]
          : ord \in sorted }

FetchTopAuthorsOf(userID) ==
    /\ \E rows \in TopInteractedAuthorRows(CurrentDB, userID) :
            calc' = [NoCalc EXCEPT !.fn = "fetchTopInteractedAuthors",
                                   !.userID = userID, !.rows = rows]
    /\ UNCHANGED <<clock, dbVars, repoVars, janitorVars, build, weights, viralVars,
                   cacheVars, procs, req, histVars, main, notice, userSettings, httpReply>>

FetchTopAuthors == \E userID \in AuthorViewers : FetchTopAuthorsOf(userID)

IngestInteractions == \E event \in AuthorEvents : Ingest(event)

InitAuthors == InitSettings

NextAuthors == IngestInteractions \/ FetchTopAuthors

SpecAuthors == InitAuthors /\ [][NextAuthors]_vars

(* the ingestion loop on its own, over a stream of well-formed and          *)
(* malformed events of every kind of the subscription filter                *)
KindFollowList == 3
KindArticle == 30023
KindImage == 20

StreamEvents ==
    { Ev("n1", "A", 1, 0, <<>>),
      Ev("n2", "B", 1, 0, <<>>),
      Ev("c1", "V", 1, 0, << <<"p", "A">>, <<"e", "n1", "root">> >>),
      Ev("c2", "V", 1, 0, << <<"e", "n1", "">>, <<"e", "n2", "root">> >>),
      Ev("c3", "V", 1, 0, << <<"e", "n1", "reply">> >>),
      Ev("c4", "V", 1, 0, << <<"e", "n1">> >>),
      Ev("c5", "V", 1, 0, << <<"e", "n2", "">> >>),
      Ev("f1", "V", KindFollowList, 0, <<>>),
      Ev("a1", "A", KindArticle, 0, <<>>),
      Ev("i1", "A", KindImage, 0, <<>>),
      Ev("r1", "V", 7, 0, << <<"e", "n1">> >>),
      Ev("r2", "V", 7, 0, << <<"p", "A">> >>),
      Ev("r3", "V", 7, 0, << <<"e">> >>),
      Ev("z1", "Z", 9735, 0,
         << <<"e", "n1">>, <<"bolt11", "lnbc10u">>, <<"description", "{pubkey:V}">> >>),
      Ev("z2", "Z", 9735, 0, << <<"e", "n1">>, <<"description", "{pubkey:V}">> >>),
      Ev("z3", "Z", 9735, 0, << <<"e", "n1">>, <<"bolt11", "lnbc10u">> >>),
      Ev("z4", "Z", 9735, 0,
         << <<"e", "n1">>, <<"bolt11">>, <<"description", "{pubkey:V}">> >>),
      Ev("z5", "Z", 9735, 0,
         << <<"e", "n1">>, <<"bolt11", "lnbc10u">>, <<"description">> >>) }

IngestStream == \E event \in StreamEvents : Ingest(event)

(* r.db.ExecContext returns an error (the connection is lost, the statement *)
(* times out): SaveNostrEvent returns it and no row is written              *)
IngestStreamFails ==
    /\ lastSave.err # Panic
    /\ \E event \in {e \in StreamEvents : e.Kind = 1} :
            lastSave' = [id |-> event.ID, err |-> DBError,
                         existed |-> RowCount(CurrentDB, event.ID) > 0]
    /\ passQuiet' = FALSE
    /\ UNCHANGED <<clock, dbVars, months, purgePc, purgeCutoff, feedVars>>

InitStream == InitSettings

NextStream == IngestStream \/ IngestStreamFails

SpecStream == InitStream /\ [][NextStream]_vars

----------------------------------------------------------------------------
InitRepo ==
    /\ clock = 0
    /\ notes = EmptyBag /\ comments = EmptyBag
    /\ reactions = EmptyBag /\ zaps = EmptyBag
    /\ lastSave = NoSave
    /\ months \in PurgeMonthsChoices
    /\ purgePc = "idle"
    /\ purgeCutoff = 0
    /\ passQuiet = FALSE
    /\ FeedIdle

NextRepo == subscribeAll \/ purgeData \/ TickMonth

SpecRepo == InitRepo /\ [][NextRepo]_vars

----------------------------------------------------------------------------
(* Properties of the repository and of the janitor (SpecRepo) *)

AllRows == Rows(notes) \cup Rows(comments) \cup Rows(reactions) \cup Rows(zaps)

EventOf(id) == CHOOSE e \in RepoEvents : e.ID = id

HasEntityTable(event) == event.Kind \in {1, 7, 9735}

(* the note an event points at: the root of a comment, the target of a     *)
(* reaction or zap; "" for a note                                           *)
TargetNote(event) ==
    IF event.Kind = 1 THEN getRootNoteID(event) ELSE getTaggedPostID(event).val

UniqueIds == \A id \in EventIds(RepoEvents) : RowCount(CurrentDB, id) <= 1

(* C6, as stated: once an event of a stored kind has been delivered (one   *)
(* or more times), exactly one row carries its ID.                          *)
C6_ExactlyOneRowOnceDelivered ==
    (lastSave.id # "" /\ HasEntityTable(EventOf(lastSave.id)))
        => RowCount(CurrentDB, lastSave.id) = 1

(* C6, amended: no ID is ever stored twice, and a delivery of an event     *)
(* whose ID is already stored leaves the four tables unchanged.             *)
C6_IdempotentOnceStored ==
    [][ /\ UniqueIds'
        /\ \A e \in RepoEvents :
              (Ingest(e) /\ RowCount(CurrentDB, e.ID) > 0) => UNCHANGED dbVars ]_vars

C6_Witness ==
    /\ lastSave.existed
    /\ lastSave.err = NoErr
    /\ RowCount(CurrentDB, lastSave.id) = 1

(* C7: when a purge pass has completed (and nothing was ingested since it  *)
(* started), no row of any table is older than the pass's cutoff.           *)
C7_RetentionAfterPass ==
    (purgePc = "idle" /\ passQuiet)
        => \A row \in AllRows : row.created_at >= purgeCutoff

ReferentialIntegrity ==
    \A row \in ChildRows(CurrentDB) : HasId(notes, row.note_id)

(* C8: every comment, reaction and zap row references a stored note, and   *)
(* the ingest of a comment, reaction or zap whose target note is not       *)
(* stored returns an error and leaves the four tables unchanged.            *)
C8_ForeignKeys ==
    [][ /\ ReferentialIntegrity'
        /\ \A e \in RepoEvents :
              (Ingest(e) /\ TargetNote(e) # "" /\ ~HasId(notes, TargetNote(e)))
                  => (UNCHANGED dbVars /\ lastSave'.err # NoErr) ]_vars

C8_Witness ==
    /\ lastSave.err = FKViolation
    /\ ChildRows(CurrentDB) # {}
    /\ purgePc = "reactions"

----------------------------------------------------------------------------
(* Properties of GetUserFeed (Spec, SpecSeq, SpecVariants) *)
KeyOf(p) == getCacheKey(req[p].userID, req[p].kind)

(* every call so far was for the given key and found no entry cached, all   *)
(* of them were started before any of them returned, and all have returned   *)
ConcurrentSameKey(key) ==
    /\ started >= 2
    /\ allOverlap
    /\ \A p \in procs : req[p].pc = "done" /\ KeyOf(p) = key /\ req[p].emptyAtStart

(* C1: when two or more calls of GetUserFeed for the same (viewer, kind) ran *)
(* concurrently from an empty cache and an empty pendingRequests, and no     *)
(* call of the composer failed, GetUserFeedByAuthors was called exactly once *)
C1_ComposerInvokedOnce ==
    \A key \in RequestKeys :
        (ConcurrentSameKey(key) /\ composerErrs = 0) => composerCalls[key] = 1

(* the call is between installing its channel and removing it *)
Generating(p) == req[p].pc \in {"compose", "generate", "serveGenerated", "cleanup"}

(* C2: for every cache key at most one call is between installing its       *)
(* channel in pendingRequests and removing it, and the key is in            *)
(* pendingRequests exactly while there is such a call                       *)
C2_AtMostOneGeneration ==
    \A key \in RequestKeys :
        LET generators == {p \in procs : Generating(p) /\ KeyOf(p) = key}
        IN  /\ Cardinality(generators) <= 1
            /\ (pendingRequests[key] # NoChan) <=> (generators # {})

(* one call generates while another call for the same key waits for it *)
C2_Witness ==
    \E p, q \in procs :
        Generating(p) /\ req[q].pc = "wait" /\ KeyOf(q) = KeyOf(p)
                      /\ req[q].pending = req[p].pending

(* C3: no event returned by GetUserFeed to a viewer has the viewer as pubkey *)
C3_NoOwnNotes ==
    \A p \in procs :
        req[p].pc = "done" =>
            \A i \in 1..Len(req[p].result) : req[p].result[i].PubKey # req[p].userID

OnePerAuthor(feed) ==
    \A i, j \in 1..Len(feed) : i # j => feed[i].Event.PubKey # feed[j].Event.PubKey

(* C4: every variant returned by generateFeedVariants holds at most one      *)
(* entry per author                                                          *)
C4_OneEntryPerAuthor ==
    \A p \in procs :
        req[p].pc = "serveGenerated" =>
            \A kind \in DOMAIN req[p].cached.Feeds :
                \A i \in 1..Len(req[p].cached.Feeds[kind]) :
                    OnePerAuthor(req[p].cached.Feeds[kind][i])

(* C5: every event returned by GetUserFeed has the kind that was asked for   *)
C5_KindStrict ==
    \A p \in procs :
        req[p].pc \in {"cleanup", "done"} =>
            \A i \in 1..Len(req[p].result) : req[p].result[i].Kind = req[p].kind

(* a call served from the cache returned notes while the viral feed holds    *)
(* notes of another kind                                                     *)
C5_Witness ==
    \E p \in procs :
        /\ req[p].pc = "done" /\ req[p].served = 1 /\ Len(req[p].result) > 0
        /\ \E n \in Range(viralNoteCache.notes) : n.Event.Kind # req[p].kind

(* C9: when the calls do not overlap and none fails, the k-th call of a run  *)
(* of calls for one (viewer, kind) within 5 minutes serves variant           *)
(* (k - 1) mod numFeedVariants                                               *)
C9_RoundRobin ==
    (sequential /\ composerErrs = 0) =>
        \A p \in procs :
            (req[p].pc = "done" /\ req[p].err = NoErr) =>
                req[p].served = (req[p].k - 1) % numFeedVariants

CandidatesExist(userID, kind) ==
    \E feed \in GetUserFeedByAuthors(CurrentDB, userID, clock, weights) :
        FilterKind(feed, kind) # <<>>

(* C10: when several calls for the same (viewer, kind) ran concurrently from *)
(* an empty cache, the one generation succeeded and there is a candidate     *)
(* note, every call returned a non-empty list                                *)
C10_AllReturnNotes ==
    \A key \in RequestKeys :
        ( /\ ConcurrentSameKey(key)
          /\ composerErrs = 0 /\ composerCalls[key] = 1
          /\ CandidatesExist(key[1], key[3]) )
        => \A p \in procs : Len(req[p].result) > 0

----------------------------------------------------------------------------
(* Properties of the relay's handlers *)

(* C11: a REQ of an unauthenticated connection is answered with the          *)
(* auth-required notice, whatever its filter; a REQ of an authenticated      *)
(* connection whose filter names authors is answered with the                *)
(* algorithmic-feeds notice; neither starts a call of GetUserFeed, and every *)
(* call of GetUserFeed runs for an authenticated viewer.                     *)
FeedUntouched == UNCHANGED <<req, started, composerCalls, cacheVars>>

C11_FilterGate ==
    [][ /\ \A authenticatedUser \in Connections, filter \in ReqFilters :
              SubscribeOf(authenticatedUser, filter) =>
                  IF authenticatedUser = ""
                  THEN notice' = [msg |-> "REQ", reason |-> AuthRequired] /\ FeedUntouched
                  ELSE IF Len(filter.Authors) > 0
                  THEN /\ notice' = [msg |-> "REQ", reason |-> OnlyAlgorithmicFeeds]
                       /\ FeedUntouched
                  ELSE started' = started + 1
        /\ \A p \in procs : req'[p].pc # "idle" => req'[p].userID \in Viewers ]_vars

C11_Witness ==
    /\ notice = [msg |-> "REQ", reason |-> OnlyAlgorithmicFeeds]
    /\ \E p \in procs : req[p].pc = "done" /\ req[p].err = NoErr

(* C12: every EVENT message of a subscriber, authenticated or not, is        *)
(* answered with the cannot-publish notice and leaves the four tables as     *)
(* they were; a step that changes a table is a step of the upstream          *)
(* ingestion or of the janitor.                                              *)
C12_PublishRejected ==
    [][ /\ \A authenticatedUser \in Connections, event \in PublishEvents :
              PublishOf(authenticatedUser, event) =>
                  /\ notice' = [msg |-> "EVENT", reason |-> CannotPublish]
                  /\ UNCHANGED dbVars
        /\ dbVars' # dbVars => \/ \E event \in PublishEvents : Ingest(event)
                               \/ purgeData ]_vars

(* a subscriber's event was refused, and the same event, delivered by an     *)
(* upstream relay, is stored                                                 *)
C12_Witness ==
    /\ notice = [msg |-> "EVENT", reason |-> CannotPublish]
    /\ RowCount(CurrentDB, "p1") = 1
    /\ lastSave.id = "p1"

(* C13: a REQ that passes relay.RejectFilter starts a call of GetUserFeed    *)
(* with the filter's limit (50 when the limit is 0) and the kind kinds[0]    *)
(* (1 when the filter names no kinds), its handler never ends in a panic,    *)
(* and a call that has returned holds at most limit events.                  *)
C13_HandlerCompletes ==
    [][ /\ \A authenticatedUser \in Connections, filter \in ReqFilters :
              (SubscribeOf(authenticatedUser, filter)
                    /\ ~RejectFilter(authenticatedUser, filter).reject) =>
                  \E p \in procs :
                      /\ req'[p] # req[p]
                      /\ req'[p].pc \in {"lock", "serveCached"}
                      /\ req'[p].limit = IF filter.Limit = 0 THEN 50 ELSE filter.Limit
                      /\ req'[p].kind = IF filter.Kinds = <<>> THEN 1 ELSE filter.Kinds[1]
        /\ \A p \in procs :
              req'[p].pc = "done" => Len(req'[p].result) <= req'[p].limit ]_vars

----------------------------------------------------------------------------
(* Properties of the settings endpoint *)
Abs(x) == IF x < 0 THEN -x ELSE x

(* the signed event of a body proves that the owner of the settings asked    *)
(* for the change just now: valid signature, same pubkey, created_at within  *)
(* five minutes of the server's clock, in the past or in the future          *)
Authentic(body) ==
    /\ body.SignedEvent.Sig = "valid"
    /\ body.SignedEvent.PubKey = body.Settings.PubKey
    /\ Abs(body.SignedEvent.CreatedAt) <= authWindow

(* C14: a POST that names a pubkey and whose signed event is not authentic   *)
(* is answered with status 401 and leaves the stored settings as they were;  *)
(* when only the pubkeys differ the body is the pubkey-mismatch message.     *)
C14_SettingsAuth ==
    [][ \A body \in SettingsBodies, saved \in BOOLEAN :
            (PostSettingsOf(body, saved) /\ body.Settings.PubKey # ""
                    /\ ~Authentic(body)) =>
                /\ httpReply'.status = StatusUnauthorized
                /\ UNCHANGED userSettings
                /\ (body.SignedEvent.Sig = "valid"
                        /\ body.SignedEvent.PubKey # body.Settings.PubKey)
                    => httpReply'.body = "Pubkey mismatch between signed event and settings"
      ]_vars

----------------------------------------------------------------------------
(* Properties of the viral note cache *)
refreshInterval == Hour

(* C15: whatever happened to the refreshes, no note of the viral pool was    *)
(* created more than three days and one refresh interval ago.                *)
C15_PoolAge ==
    \A i \in 1..Len(viralNoteCache.notes) :
        clock - viralNoteCache.notes[i].Event.CreatedAt <= 3 * Day + refreshInterval

----------------------------------------------------------------------------
(* Properties of the scoring functions *)
ScoreAt(c, r, z, i) ==
    calculateAuthorNoteScore(Meta(calc.createdAt, c, r, z), i, calc.now, weights)

(* C16: under every loaded weight configuration, raising the comment count,  *)
(* the reaction count, the zap count or the interaction count of a note by   *)
(* one does not lower its affinity score.                                    *)
C16_ScoreMonotone ==
    calc.fn = "calculateAuthorNoteScore" =>
        /\ ScoreAt(calc.c + 1, calc.r, calc.z, calc.i) >= calc.out
        /\ ScoreAt(calc.c, calc.r + 1, calc.z, calc.i) >= calc.out
        /\ ScoreAt(calc.c, calc.r, calc.z + 1, calc.i) >= calc.out
        /\ ScoreAt(calc.c, calc.r, calc.z, calc.i + 1) >= calc.out

(* C17: the recency factor of every note, created in the past or in the      *)
(* future, lies between 0.001 and 1.0 under every loaded decay rate.         *)
C17_RecencyBounds ==
    calc.fn = "calculateRecencyFactor" => (1 <= calc.out /\ calc.out <= 1000)

----------------------------------------------------------------------------
(* Properties of a failed generation *)
FailedInCleanup == {p \in procs : req[p].pc = "cleanup" /\ req[p].err # NoErr}

----------------------------------------------------------------------------
(* Properties of fetchTopInteractedAuthors *)

(* the notes of an author, and the number of a user's own reactions, zaps    *)
(* and comments on them                                                      *)
NotesBy(db, author) == {n.id : n \in {m \in Rows(db.notes) : m.author_id = author}}

OwnInteractions(db, userID, author) ==
    Cardinality({r \in Rows(db.reactions) :
                    r.reactor_id = userID /\ r.note_id \in NotesBy(db, author)})
    + Cardinality({z \in Rows(db.zaps) :
                    z.zapper_id = userID /\ z.note_id \in NotesBy(db, author)})
    + Cardinality({c \in Rows(db.comments) :
                    c.commenter_id = userID /\ c.note_id \in NotesBy(db, author)})

(* C19: the rows returned for a viewer name exactly the authors on whose     *)
(* notes the viewer has a reaction, a zap or a comment, each once and with   *)
(* the number of those interactions as its count, in descending order of     *)
(* count.                                                                    *)
C19_TopAuthors ==
    [][ \A userID \in AuthorViewers :
            FetchTopAuthorsOf(userID) =>
                LET rows == calc'.rows
                    db == CurrentDB
                    authors == {n.author_id : n \in Rows(db.notes)}
                IN  /\ {rows[i].AuthorID : i \in 1..Len(rows)}
                            = {a \in authors : OwnInteractions(db, userID, a) > 0}
                    /\ \A i \in 1..Len(rows), j \in 1..Len(rows) :
                            /\ i # j => rows[i].AuthorID # rows[j].AuthorID
                            /\ i < j => rows[i].InteractionCount >= rows[j].InteractionCount
                    /\ \A i \in 1..Len(rows) :
                            rows[i].InteractionCount
                                = OwnInteractions(db, userID, rows[i].AuthorID) ]_vars

----------------------------------------------------------------------------
(* Properties of a refresh of the viral pool *)
DistinctCount(table, noteId) == Cardinality(Joined(table, noteId))

(* C20: a successful refresh leaves at most 100 notes in the pool; each was  *)
(* created within the three days before the refresh, the number of its       *)
(* comments plus the number of its reactions plus the number of its zaps is  *)
(* at least the viral threshold, and its score is computed from those three  *)
(* numbers.                                                                  *)
C20_ViralPool ==
    [][ RefreshViral =>
            LET pool == viralNoteCache'.notes
                db == CurrentDB
            IN  /\ Len(pool) <= 100
                /\ \A i \in 1..Len(pool) :
                      LET event == pool[i].Event
                          c == DistinctCount(db.comments, event.ID)
                          r == DistinctCount(db.reactions, event.ID)
                          z == DistinctCount(db.zaps, event.ID)
                      IN  /\ event.CreatedAt >= clock - 3 * Day
                          /\ 1000 * (c + r + z) >= weights.viralThreshold
                          /\ pool[i].Score = ViralScore(event, c, r, z, clock, weights) ]_vars

----------------------------------------------------------------------------
(* Properties of the ingestion of one event (SpecStream) *)
ETags(event) == SelectSeq(event.Tags, LAMBDA tag : IsTag(tag, "e"))

HasETag(event) == ETags(event) # <<>>

(* the rule for the root of a reply: the e-tag marked root wherever it       *)
(* stands, else the first e-tag with an empty marker, else the first e-tag   *)
RootByRule(event) ==
    LET e == ETags(event)
        Marked(m) == SelectSeq(e, LAMBDA tag : Len(tag) >= 3 /\ tag[3] = m)
    IN  IF Marked("root") # <<>> THEN Marked("root")[1][2]
        ELSE IF Marked("") # <<>> THEN Marked("")[1][2]
        ELSE e[1][2]

(* C21: for every kind-1 event with at least one e-tag that the ingestion    *)
(* hands to SaveNostrEvent, getRootNoteID chooses the ID of the e-tag marked *)
(* root if there is one, else of the first e-tag with an empty marker, else  *)
(* of the first e-tag.                                                       *)
C21_RootRule ==
    [][ \A event \in StreamEvents :
            (Ingest(event) /\ event.Kind = 1 /\ HasETag(event)) =>
                getRootNoteID(event) = RootByRule(event) ]_vars

(* C22: a kind-1 event that was saved without error is a row of comments and *)
(* not of notes if it carries an e-tag, whatever the length and the marker   *)
(* of the tag, and a row of notes and not of comments if it carries none.    *)
C22_CommentIffETag ==
    [][ \A event \in StreamEvents :
            (Ingest(event) /\ event.Kind = 1 /\ lastSave'.err = NoErr) =>
                IF HasETag(event)
                THEN HasId(comments', event.ID) /\ ~HasId(notes', event.ID)
                ELSE HasId(notes', event.ID) /\ ~HasId(comments', event.ID) ]_vars

(* C23: an event of kind 3, 30023 or 20 handed to SaveNostrEvent is saved    *)
(* without error and is a row of notes afterwards.                           *)
C23_OtherKindsAreNotes ==
    [][ \A event \in StreamEvents :
            (Ingest(event) /\ event.Kind \in {KindFollowList, KindArticle, KindImage}) =>
                lastSave'.err = NoErr /\ HasId(notes', event.ID) ]_vars

(* a tag that has a name and no value *)
BareTag(event, name) == \E i \in 1..Len(event.Tags) : event.Tags[i] = <<name>>

HasTag(event, name) == \E i \in 1..Len(event.Tags) : IsTag(event.Tags[i], name)

(* a reaction or zap that lacks a tag it requires, or carries one without a  *)
(* value                                                                      *)
MalformedTags(event) ==
    \/ event.Kind \in {7, 9735} /\ (~HasTag(event, "e") \/ BareTag(event, "e"))
    \/ event.Kind = 9735 /\ ( \/ ~HasTag(event, "bolt11") \/ BareTag(event, "bolt11")
                              \/ ~HasTag(event, "description")
                              \/ BareTag(event, "description") )

(* C24: for every reaction or zap with a missing or valueless required tag,  *)
(* SaveNostrEvent returns an error to the ingestion loop (it does not        *)
(* panic) and the four tables are as they were.                              *)
C24_ParseErrorAsValue ==
    [][ \A event \in StreamEvents :
            (Ingest(event) /\ MalformedTags(event)) =>
                /\ lastSave'.err \notin {NoErr, Panic}
                /\ UNCHANGED dbVars ]_vars

(* the events of the stream that are notes of their own *)
ValidNotes == {event \in StreamEvents : event.Kind = 1 /\ event.Tags = <<>>}

(* C25: whatever events were delivered before and however their saves ended, *)
(* the ingestion loop still takes the next event of the stream, and a valid  *)
(* note it takes is a row of notes afterwards.                               *)
C25_IngestionContinues ==
    /\ [](\A event \in ValidNotes : ENABLED Ingest(event))
    /\ [][\A event \in ValidNotes : Ingest(event) => HasId(notes', event.ID)]_vars

----------------------------------------------------------------------------
(* Properties of the feed cache under concurrent and repeated requests *)
VariantsOf(entry, kind) == entry.Feeds[kind]

(* C26: every cache-hit read of a fresh entry that the generating call has   *)
(* already served advances the stored index of the entry by exactly one      *)
(* (modulo the number of variants) and is served the variant of the index it *)
(* stored, so that no advance of a concurrent cache-hit read is lost.        *)
C26_AtomicAdvance ==
    [][ \A p \in procs :
            ( /\ req[p].pc = "serveCached" /\ req'[p].pc = "done"
              /\ req[p].cached.LastServedIndex >= 0 ) =>
                LET stored == userFeedCache[KeyOf(p)]
                    n == Len(VariantsOf(stored, req[p].kind))
                IN  /\ userFeedCache'[KeyOf(p)].LastServedIndex
                            = (stored.LastServedIndex + 1) % n
                    /\ req'[p].served = userFeedCache'[KeyOf(p)].LastServedIndex ]_vars

OthersGenerating(q) == {p \in procs \ {q} : Generating(p)}

(* C27: a call that reaches the critical section for a key that no call is   *)
(* generating is never kept from claiming the key by generations for other   *)
(* keys: its step through the critical section is possible in every such     *)
(* state, installs its own channel under its own key and leaves the channels *)
(* of the other keys in place.                                               *)
C27_DistinctKeysParallel ==
    /\ [](\A q \in procs :
            (req[q].pc = "lock" /\ \A p \in OthersGenerating(q) : KeyOf(p) # KeyOf(q))
                => ENABLED (LockPending /\ req'[q].pc = "compose"))
    /\ [][ \A q \in procs :
            ( /\ req[q].pc = "lock" /\ req'[q].pc # "lock"
              /\ \A p \in OthersGenerating(q) : KeyOf(p) # KeyOf(q) ) =>
                /\ req'[q].pc = "compose"
                /\ pendingRequests'[KeyOf(q)] = req'[q].pending
                /\ req'[q].pending \notin closed
                /\ \A key \in RequestKeys \ {KeyOf(q)} :
                        pendingRequests'[key] = pendingRequests[key] ]_vars

(* two generations for two keys are in flight at the same time *)
C27_Witness ==
    \E p \in procs, q \in procs :
        /\ req[p].pc = "generate" /\ req[q].pc = "compose"
        /\ KeyOf(p) # KeyOf(q)
        /\ pendingRequests[KeyOf(p)] # NoChan /\ pendingRequests[KeyOf(q)] # NoChan

(* C28: when the calls do not overlap and none fails, a call made less than  *)
(* 5 minutes after the first call of its run, which generated the entry,     *)
(* finds the entry under its key: it is served from the cache and never      *)
(* reaches the critical section or the composer.                             *)
C28_ServedFromCache ==
    (sequential /\ composerErrs = 0) =>
        \A p \in procs :
            req[p].k > 1 => req[p].pc \in {"serveCached", "done"}

(* C29: a call is served from the cache only from an entry whose generation  *)
(* started less than 5 minutes before the call, and every stored entry       *)
(* carries the start of its generation as its timestamp, whether it was      *)
(* stored by the generation or by a later serve.                             *)
C29_EntryLifetime ==
    /\ \A p \in procs :
          req[p].pc = "serveCached" => req[p].now - req[p].cached.born < feedCacheDuration
    /\ \A key \in CacheKeys :
          userFeedCache[key].ok => userFeedCache[key].Timestamp = userFeedCache[key].born

----------------------------------------------------------------------------
(* Properties of a failed refresh of the viral pool *)

(* C30: a refresh that fails leaves the notes and the timestamp of the pool  *)
(* as they were and schedules the next refresh one interval later, and       *)
(* whenever a refresh is due the refresher can run it.                       *)
C30_FailedRefreshKeepsPool ==
    /\ [](clock >= refreshDue => ENABLED refreshViralNotes)
    /\ [][ (refreshDue' # refreshDue /\ ~RefreshViral) =>
                /\ viralNoteCache' = viralNoteCache
                /\ refreshDue' = clock + refreshInterval ]_vars

(* a refresh failed after a successful one: the pool of the successful one   *)
(* is still in place and the next refresh is scheduled                       *)
C30_Witness ==
    /\ viralNoteCache.notes # <<>>
    /\ refreshDue - viralNoteCache.Timestamp >= 2 * refreshInterval
    /\ clock < refreshDue

----------------------------------------------------------------------------
(* Properties of a purge pass in which a purge fails *)
NotesPurgeFails == PurgeNotesOlderThan(CurrentDB, Cutoff).err # NoErr

----------------------------------------------------------------------------
(* The step of a generating call from the author feed and the viral feed to *)
(* the variants it stores.                                                   *)
Generates(p) == req[p].pc = "generate" /\ req'[p].pc = "serveGenerated"

EntriesOfAuthor(variant, authorID) == NotesOfAuthor(variant, authorID)

(* C32: with nothing to blend in, variant i (counted from 0) holds of every  *)
(* author exactly the i-th candidate note of that author, and no note of an  *)
(* author who has fewer than i+1 candidate notes                             *)
C32_SeedSpread ==
    [][\A p \in procs :
          (Generates(p) /\ viralNoteCache.notes = <<>>) =>
              LET seeds == FilterKind(req[p].authorFeed, req[p].kind)
                  variants == req'[p].cached.Feeds[req[p].kind]
              IN  \A i \in 1..numFeedVariants : \A a \in AuthorsOf(seeds) :
                      EntriesOfAuthor(variants[i], a)
                          = IF Len(NotesOfAuthor(seeds, a)) >= i
                            THEN << NotesOfAuthor(seeds, a)[i] >>
                            ELSE <<>>]_vars

(* The viral notes that a variant takes by the rule of one variant on its    *)
(* own: the pool is read in order from position j; a note is taken when its  *)
(* author is not represented yet and the variant has room.                   *)
RECURSIVE ViralPicks(_, _, _, _)
ViralPicks(pool, j, represented, room) ==
    IF j > Len(pool) \/ room <= 0 THEN {}
    ELSE IF pool[j].Event.PubKey \notin represented
         THEN {pool[j]} \cup ViralPicks(pool, j + 1,
                                        represented \cup {pool[j].Event.PubKey}, room - 1)
         ELSE ViralPicks(pool, j + 1, represented, room)

(* C33: every variant holds, next to its seeded notes, exactly the viral     *)
(* notes of the requested kind that the blend of that variant alone takes:   *)
(* the first note in pool order of every author the variant does not hold    *)
(* yet, whatever the other variants took                                     *)
C33_BlendPerVariant ==
    [][\A p \in procs :
          Generates(p) =>
              LET seeds == FilterKind(req[p].authorFeed, req[p].kind)
                  pool == FilterKind(viralNoteCache.notes, req[p].kind)
                  variants == req'[p].cached.Feeds[req[p].kind]
              IN  \A i \in 1..numFeedVariants :
                      LET seeded == Range(variants[i]) \cap Range(seeds)
                          represented == {n.Event.PubKey : n \in seeded}
                      IN  Range(variants[i]) \ seeded
                            = ViralPicks(pool, 1, represented,
                                         variantFeedSize - Cardinality(seeded))]_vars

NoNoteTwice(feed) ==
    \A i, j \in 1..Len(feed) : i # j => feed[i].Event.ID # feed[j].Event.ID

ScoresNonIncreasing(feed) ==
    \A i \in 1..(Len(feed) - 1) : feed[i].Score >= feed[i + 1].Score

(* C34: generateFeedVariants returns exactly 5 variants for the requested    *)
(* kind, each of at most 100 entries, none holding a note twice, each with   *)
(* scores that do not increase from the first entry to the last              *)
C34_VariantShape ==
    \A p \in procs :
        req[p].pc = "serveGenerated" =>
            LET variants == req[p].cached.Feeds[req[p].kind]
            IN  /\ Len(variants) = numFeedVariants
                /\ \A i \in 1..Len(variants) :
                      /\ Len(variants[i]) <= variantFeedSize
                      /\ NoNoteTwice(variants[i])
                      /\ ScoresNonIncreasing(variants[i])

(* the variants of one kind that a build can generate from the two feeds *)
VariantsFor(b, authorFeed, viralFeed, kind) ==
    IF b = "part_004"
    THEN generateFeedVariantsOfKind(authorFeed, viralFeed, variantFeedSize, kind)
    ELSE { feeds[kind] :
             feeds \in generateFeedVariants(authorFeed, viralFeed,
                                            variantFeedSize, <<kind>>) }

(* the variants of the requested kind that a generating call can store *)
PossibleVariants(p) ==
    VariantsFor(build, req[p].authorFeed, viralNoteCache.notes, req[p].kind)

(* C35: in every variant no viral entry stands before a seeded entry of the  *)
(* same score, and the inputs of a generation determine its variants         *)
C35_StableAndDeterministic ==
    [][\A p \in procs :
          Generates(p) =>
              LET seeds == Range(FilterKind(req[p].authorFeed, req[p].kind))
                  variants == req'[p].cached.Feeds[req[p].kind]
              IN  /\ \A i \in 1..Len(variants) : \A a, b \in 1..Len(variants[i]) :
                        (a < b /\ variants[i][a].Score = variants[i][b].Score)
                            => ~(variants[i][a] \notin seeds /\ variants[i][b] \in seeds)
                  /\ PossibleVariants(p) = {variants}]_vars

----------------------------------------------------------------------------
(* The candidate fetch on its own: GetUserFeedByAuthors over the tables     *)
(* that the ingestion of the events below can produce.  A has a recent note *)
(* and a note of 8 days ago, and up to 5 reactions of the viewer; B has a   *)
(* recent note and one reaction of the viewer.                              *)
CandidateEvents ==
    { Ev("a1", "A", 1, At(Hour), <<>>),
      Ev("a3", "A", 1, At(8 * Day), <<>>),
      ReactionTo("rv1", "V", "a1"), ReactionTo("rv2", "V", "a1"),
      ReactionTo("rv3", "V", "a1"), ReactionTo("rv4", "V", "a1"),
      ReactionTo("rv5", "V", "a1"),
      Ev("b1", "B", 1, At(6 * Hour), <<>>),
      ReactionTo("rb1", "V", "b1") }

IngestCandidates == \E event \in CandidateEvents : Ingest(event)

FetchCandidates ==
    /\ \E userID \in Viewers :
          \E feed \in GetUserFeedByAuthors(CurrentDB, userID, clock, weights) :
              calc' = [NoCalc EXCEPT !.fn = "GetUserFeedByAuthors",
                                     !.userID = userID, !.rows = feed]
    /\ UNCHANGED <<clock, dbVars, repoVars, janitorVars, build, weights, viralVars,
                   cacheVars, procs, req, histVars, main, notice, userSettings, httpReply>>

InitCandidates == InitSettings

NextCandidates == IngestCandidates \/ FetchCandidates

SpecCandidates == InitCandidates /\ [][NextCandidates]_vars

Fetched == calc'.fn = "GetUserFeedByAuthors" /\ calc' # calc

(* C36: every candidate that the fetch returns is a note of an author with   *)
(* an interaction count of at least 5 for the viewer, created within the     *)
(* last 7 days; when no author has a count of 5 the fetch returns nothing,   *)
(* and variants generated from no candidates hold viral notes only           *)
C36_CandidateThreshold ==
    [][Fetched =>
          LET count == fetchTopInteractedAuthors(CurrentDB, calc'.userID)
              rows == calc'.rows
          IN  /\ \A i \in 1..Len(rows) :
                    /\ getInteractionCountForAuthor(rows[i].Event.PubKey, count) >= 5
                    /\ rows[i].Event.CreatedAt >= clock - 7 * Day
                    /\ HasId(notes, rows[i].Event.ID)
              /\ (\A a \in DOMAIN count : count[a] < 5) => rows = <<>>
              /\ rows = <<>> =>
                    \A b \in Builds, viralFeed \in ViralFeedChoices, kind \in KindsAsked :
                        \A variants \in VariantsFor(b, rows, viralFeed, kind) :
                            \A i \in 1..Len(variants) :
                                Range(variants[i]) \subseteq Range(viralFeed)]_vars

(* the fetch returned A's recent note and nothing else, while A also has a   *)
(* note older than 7 days and B, with one interaction, has a recent note     *)
C36_Witness ==
    /\ calc.fn = "GetUserFeedByAuthors"
    /\ {calc.rows[i].Event.ID : i \in 1..Len(calc.rows)} = {"a1"}
    /\ HasId(notes, "a3") /\ HasId(notes, "b1") /\ HasId(reactions, "rb1")

(* the deferred cleanup of the call of p, which ends the call *)
Finishes(p) == req[p].pc = "cleanup" /\ req'[p].pc = "done"

(* C37: a generating call whose caller cancelled mid-generation still ends   *)
(* with the channel closed, the in-flight marker removed and, unless the     *)
(* composer failed, an entry in the cache that a later call for the key      *)
(* reads; and it delivers no events                                          *)
C37_CancelledGeneration ==
    [][\A p \in procs :
          (Finishes(p) /\ req[p].cancelled) =>
              /\ req[p].pending \in closed'
              /\ pendingRequests'[KeyOf(p)] = NoChan
              /\ req[p].err = NoErr =>
                    LET entry == getCachedUserFeeds(req[p].userID, req[p].kind)'
                    IN  entry.ok /\ entry.born >= req[p].now
              /\ req'[p].result = <<>>]_vars

(* C38: every call ends; a call waiting on a channel is woken; a channel is  *)
(* closed once, by the cleanup of the call that made it, also when the       *)
(* composer failed; and pendingRequests is empty when no call is in progress *)
C38_Terminates ==
    /\ \A p \in 1..MaxProcs : Running(p) ~> ~Running(p)
    /\ \A p \in 1..MaxProcs : (req[p].pc = "wait") ~> (req[p].pc # "wait")
    /\ [][ /\ \A p \in procs : Finishes(p) => req[p].pending \notin closed
           /\ closed' # closed =>
                 \E p \in procs : Finishes(p) /\ closed' = closed \cup {req[p].pending}
         ]_vars
    /\ []((\A p \in procs : ~Running(p)) =>
              \A key \in RequestKeys : pendingRequests[key] = NoChan)

(* a call waits on the channel of a generation whose composer failed, and    *)
(* the cleanup of that generation has closed the channel                     *)
C38_Witness ==
    \E p \in procs :
        /\ req[p].pc = "wait"
        /\ req[p].pending \in closed \cap failedGen
        /\ pendingRequests[KeyOf(p)] = NoChan

----------------------------------------------------------------------------
(* The feed model started after a first call: GetUserFeed(V, kind 1) at the *)
(* start time has generated its variants from the seed database, stored     *)
(* the entry, served variant 0 and returned.  The calls explored follow it. *)
InitStale ==
    /\ RelayIdle
    /\ clock = FeedEpoch
    /\ notes = SeedDB.notes /\ comments = SeedDB.comments
    /\ reactions = SeedDB.reactions /\ zaps = SeedDB.zaps
    /\ lastSave = NoSave
    /\ months = 1 /\ purgePc = "idle" /\ purgeCutoff = 0 /\ passQuiet = FALSE
    /\ build \in Builds
    /\ weights = DefaultWeights
    /\ viralNoteCache = [notes |-> <<>>, Timestamp |-> 0]
    /\ refreshDue = FeedEpoch
    /\ \E authorFeed \in GetUserFeedByAuthors(SeedDB, "V", FeedEpoch, DefaultWeights) :
          \E variants \in VariantsFor(build, authorFeed, <<>>, KindTextNote) :
              userFeedCache =
                  [key \in CacheKeys |->
                      IF key = StoreKey("V", KindTextNote)
                      THEN [Feeds |-> SetKey(<<>>, KindTextNote, variants),
                            Timestamp |-> FeedEpoch, LastServedIndex |-> 0,
                            ok |-> TRUE, born |-> FeedEpoch]
                      ELSE NoEntry]
    /\ pendingRequests = [key \in RequestKeys |-> NoChan]
    /\ nextChan = 2
    /\ closed = {1}
    /\ procs = 1..MaxProcs
    /\ req = [p \in 1..MaxProcs |-> IdleReq]
    /\ started = 0
    /\ composerCalls = [key \in RequestKeys |->
                          IF key = getCacheKey("V", KindTextNote) THEN 1 ELSE 0]
    /\ composerErrs = 0
    /\ sequential = TRUE
    /\ allOverlap = TRUE
    /\ chain = [key \in RequestKeys |->
                  IF key = getCacheKey("V", KindTextNote)
                  THEN [k |-> 1, first |-> FeedEpoch] ELSE [k |-> 0, first |-> 0]]
    /\ failedGen = {}

NextStale == GetUserFeed \/ Tick

SpecStale == InitStale /\ [][NextStale]_vars

(* C39: an entry of the cache is never replaced by an entry of an older      *)
(* generation: no store leaves under a key an entry that was generated       *)
(* before, or carries a timestamp before, the entry it replaces              *)
C39_NewerEntryStays ==
    [][\A key \in CacheKeys :
          userFeedCache[key].ok =>
              /\ userFeedCache'[key].born >= userFeedCache[key].born
              /\ userFeedCache'[key].Timestamp >= userFeedCache[key].Timestamp]_vars

(* what the cache holds for (userID, kind): the variants of the kind, the    *)
(* timestamp and the rotation index of the entry the build keeps them in     *)
CachedFor(userID, kind) ==
    LET entry == userFeedCache[StoreKey(userID, kind)]
    IN  [variants |-> IF kind \in DOMAIN entry.Feeds THEN entry.Feeds[kind] ELSE <<>>,
         Timestamp |-> entry.Timestamp,
         LastServedIndex |-> entry.LastServedIndex]

(* C40: a step of a call for (V, K1) leaves what the cache holds for every   *)
(* other (viewer, kind) as it was                                            *)
C40_KeysIndependent ==
    [][\A p \in procs :
          (Running(p) /\ req'[p] # req[p]) =>
              \A userID \in Viewers, kind \in KindsAsked :
                  getCacheKey(userID, kind) # KeyOf(p) =>
                      CachedFor(userID, kind)' = CachedFor(userID, kind)]_vars
====
